---- MODULE Spec2Model ----
(***************************************************************************)
(* A model of the moderation relay of worstlover/your-telegram-bot.        *)
(*                                                                         *)
(*   media_manager.py    MediaManager: the pending queue (an insertion     *)
(*                       ordered dict id -> PendingMedia) and its JSON     *)
(*                       file                                              *)
(*   user_manager.py     UserManager: the users table and the name mode    *)
(*   profanity_filter.py ProfanityFilter: the word lists, their compiled   *)
(*                       patterns and their JSON file                      *)
(*   configfiles/config.py  Config                                         *)
(*   bot_handlers.py     BotHandlers: the python-telegram-bot handlers     *)
(*                       main.py registers                                 *)
(*   bot.py, badwords.py the aiogram relay with its pending_messages dict  *)
(*                       and its word filter                               *)
(*                                                                         *)
(* Optional[T] values are sets: None is {} and a present value v is {v}.   *)
(* str(uuid.uuid4()) is a fresh identifier: the next unused natural.       *)
(* time.time() is the variable now, in seconds, which never runs backward. *)
(***************************************************************************)
EXTENDS Integers, Sequences, FiniteSets, TLC

VARIABLES
    running,        \* the entry point this process runs: "main.py" or "bot.py"
    pending_media,  \* MediaManager.pending_media, in insertion order
    file,           \* the content of data/pending_media.json
    config,         \* the Config object built from the environment
    now,            \* the reading of time.time()
    nextId,         \* the identifiers uuid4 has not handed out yet start here
    ret,            \* the last MediaManager call, what it returned and the
                    \* ids it logged as "Cleaned up old processed media"
    decided,        \* id -> the decision its first successful decide recorded,
                    \* the number n of decides that succeeded for it, and
                    \* whether it was decided before this process loaded it
    track,          \* the submits seen since a decide freed a full queue
    users,          \* the rows of the users table, user_id -> row
    setting_name,   \* UserManager._setting_name_cache, user_id -> bool
    stats,          \* BotHandlers.stats
    channel,        \* what main.py's bot has sent to config.CHANNEL_ID
    handled,        \* the last update main.py's handlers finished, and how
    callbacks,      \* id -> the decide callbacks of admins handled for it
    screened,       \* what contains_profanity found, (True, ...) or (False,
                    \* ...), if the last update of main.py got as far as
                    \* the screening step; None if it did not
    pending_messages, \* bot.py's dict message_id -> message
    forwards,       \* bot.py's forward_to_channel calls waiting on their send
    relay_channel,  \* what bot.py's bot has sent to CHANNEL_ID
    relay_decisions,\* message_id -> the decision handle_callback took on it
    relay_ret,      \* the last callback bot.py handled, and what it found
    next_message_id,\* the message ids Telegram has not handed out yet
    profanity_words,\* ProfanityFilter.profanity_words, language -> list of words
    patterns,       \* ProfanityFilter.patterns, the lists of compiled patterns
    words_file,     \* the content of data/profanity_words.json
    mutation,       \* the add_word or remove_word call under way, and the
                    \* statement it has reached
    restarts        \* how often main.py was started again

mmvars == <<pending_media, file, config, now, nextId, ret, decided, track>>

botvars == <<users, setting_name, stats, channel, handled, callbacks, screened>>

relayvars == <<pending_messages, forwards, relay_channel, relay_decisions,
               relay_ret, next_message_id>>

lexvars == <<profanity_words, patterns, words_file, mutation, restarts>>

vars == <<running, mmvars, botvars, relayvars, lexvars>>

None == {}
Some(v) == {v}

\* ------------------------------------------------------------ constants

\* media_manager.py:74, the literal the capacity test compares with
QueueCeiling == 100

\* media_manager.py:161, 7 * 24 * 60 * 60
RetentionSeconds == 7 * 24 * 60 * 60

\* spec.md 4.2: the per-submitter cap on simultaneously pending items
SubmitterQuota == 5

\* ------------------------------------------------------------ bounds

MaxUser == 2
MaxItems == 3
MaxLoaded == 1
MaxSkew == 1
MaxDecisions == 1
Headroom == 1
MaxUpdates == 3
MaxRelayMessages == 2
MaxRegistryUpdates == 8
MaxLexiconUpdates == 2
MaxRestarts == 1

Users == 1..MaxUser
AdminIds == {901, 902}
MediaTypes == {"photo"}
StartTime == RetentionSeconds + 2
MaxNow == StartTime + RetentionSeconds + MaxSkew
TickSteps == {1, RetentionSeconds}
\* what a save can do: "ok" writes the file, "fail" raises and leaves it as it
\* was.  The saves of the specifications below succeed.
SaveOutcomes == {"ok"}
ConfiguredCeilings == {2, QueueCeiling}

\* ------------------------------------------------------------ PendingMedia

PendingMedia(id, user_id, username, message_id, media_type, file_id, caption, timestamp, approved, admin_decision_time, admin_id) ==
    [id |-> id, user_id |-> user_id, username |-> username,
     message_id |-> message_id, media_type |-> media_type, file_id |-> file_id,
     caption |-> caption, timestamp |-> timestamp, approved |-> approved,
     admin_decision_time |-> admin_decision_time, admin_id |-> admin_id]

Ids(q) == {q[i].id : i \in 1..Len(q)}

\* dict.get(media_id): the item stored under the id, or None
get_media(q, media_id) ==
    {q[i] : i \in {j \in 1..Len(q) : q[j].id = media_id}}

\* [media for media in self.pending_media.values() if media.approved is None]
get_pending_media(q) == SelectSeq(q, LAMBDA m : m.approved = None)

\* the dict as it is when the entry is not deleted
NotRemoved(q, media_id) == q

\* del self.pending_media[media_id]: the other entries keep their order
Without(q, media_id) == SelectSeq(q, LAMBDA m : m.id # media_id)

\* the dict after the assignment of media.approved alone
AssignApproved(q, media_id, approved, t, admin_id) ==
    [i \in 1..Len(q) |->
        IF q[i].id = media_id THEN [q[i] EXCEPT !.approved = Some(approved)] ELSE q[i]]

\* the dict after a field assignment through the stored object
Assign(q, media_id, approved, t, admin_id) ==
    [i \in 1..Len(q) |->
        IF q[i].id = media_id
        THEN [q[i] EXCEPT !.approved = Some(approved),
                          !.admin_decision_time = Some(t),
                          !.admin_id = Some(admin_id)]
        ELSE q[i]]

Items(q) == {q[i] : i \in 1..Len(q)}

\* the new entry put in front of the others
InsertedFront(q, m) == <<m>> \o q

\* self.pending_media[media_id] = new_media for an id not in the dict: a dict
\* keeps insertion order, so the new entry is the last one
Inserted(q, m) == Append(q, m)

\* save_pending_media: json.dump of the dict; an exception is logged and dropped
save_pending_media(f, q, outcome) ==
    IF outcome = "ok" THEN q ELSE f

\* load_pending_media: the dict rebuilt, in file order, from the JSON object
load_pending_media(f) == f

\* the age test alone, without the test for a decision
old_media_ids(q, t) ==
    {q[i].id : i \in {j \in 1..Len(q) : q[j].timestamp < t - RetentionSeconds}}

\* the ids _cleanup_old_media deletes
old_processed_media_ids(q, t) ==
    {q[i].id : i \in {j \in 1..Len(q) :
        q[j].timestamp < t - RetentionSeconds /\ q[j].approved # None}}

\* no cleanup at all
NotCleaned(q, t) == q

\* the dict _cleanup_old_media leaves
Cleaned(q, t) == SelectSeq(q, LAMBDA m : m.id \notin old_processed_media_ids(q, t))

\* the capacity test with > for >=
QueueFullOffByOne(q) == Len(get_pending_media(q)) > QueueCeiling

\* the capacity test on len(self.pending_media), decided entries included
QueueFullAllEntries(q) == Len(q) >= QueueCeiling

\* the capacity test of add_pending_media
QueueFull(q) == Len(get_pending_media(q)) >= QueueCeiling

\* `if media`, without the test for an earlier decision
Present(q, media_id) == get_media(q, media_id) # None

\* `if media and media.approved is None`
Undecided(q, media_id) ==
    \E m \in get_media(q, media_id) : m.approved = None

\* `if media and media.approved is not None`
Processed(q, media_id) ==
    \E m \in get_media(q, media_id) : m.approved # None

\* ------------------------------------------------------------ observers

Idle == [armed |-> FALSE, subs |-> <<>>]

\* A successful decide on a queue of exactly QueueCeiling Unset items arms the
\* tracker; the next two submits are then recorded in order.
TrackDecide(ok, wasFull) ==
    IF ~ok THEN track
    ELSE IF wasFull THEN [armed |-> TRUE, subs |-> <<>>] ELSE Idle

TrackSubmit(ok) ==
    IF track.armed /\ Len(track.subs) < 2
    THEN [track EXCEPT !.subs = Append(@, ok)]
    ELSE Idle

Min(a, b) == IF a <= b THEN a ELSE b

Recorded(id, approved, admin_id) ==
    IF id \in DOMAIN decided
    THEN [decided EXCEPT ![id].n = Min(2, @ + 1)]
    ELSE decided @@ (id :> [approved |-> approved, admin_id |-> admin_id,
                            n |-> 1, loaded |-> FALSE])

\* ------------------------------------------------------------ MediaManager

\* add_pending_media: s1 is the outcome of the save after the insert, s2 the
\* outcome of the save _cleanup_old_media makes when it deleted something.
add_pending_media(user_id, username, message_id, media_type, file_id, caption, s1, s2) ==
    IF QueueFull(pending_media)
    THEN /\ ret' = [op |-> "add_pending_media", id |-> 0, val |-> None, cleaned |-> {}]
         /\ track' = TrackSubmit(FALSE)
         /\ UNCHANGED <<pending_media, file, config, now, nextId, decided>>
    ELSE LET media_id == nextId
             new_media == PendingMedia(media_id, user_id, username, message_id,
                                       media_type, file_id, caption, now,
                                       None, None, None)
             q1 == Inserted(pending_media, new_media)
             f1 == save_pending_media(file, q1, s1)
             q2 == Cleaned(q1, now)
             f2 == IF old_processed_media_ids(q1, now) # {}
                   THEN save_pending_media(f1, q2, s2) ELSE f1
         IN /\ pending_media' = q2
            /\ file' = f2
            /\ nextId' = nextId + 1
            /\ ret' = [op |-> "add_pending_media", id |-> media_id, val |-> Some(media_id),
                       cleaned |-> old_processed_media_ids(q1, now)]
            /\ track' = TrackSubmit(TRUE)
            /\ UNCHANGED <<config, now, decided>>

\* remove_processed_media as approve_media and reject_media call it: the pair
\* <<dict, file>> it leaves
RemoveProcessed(q, f, media_id, s) ==
    IF Processed(q, media_id)
    THEN <<Without(q, media_id), save_pending_media(f, Without(q, media_id), s)>>
    ELSE <<q, f>>

\* the common body of approve_media (approved = TRUE) and reject_media (FALSE)
set_decision(op, approved, media_id, admin_id, s1, s2) ==
    IF Undecided(pending_media, media_id)
    THEN LET q1 == Assign(pending_media, media_id, approved, now, admin_id)
             f1 == save_pending_media(file, q1, s1)
             r == RemoveProcessed(q1, f1, media_id, s2)
         IN /\ pending_media' = r[1]
            /\ file' = r[2]
            /\ ret' = [op |-> op, id |-> media_id, val |-> Some(TRUE), cleaned |-> {}]
            /\ decided' = Recorded(media_id, approved, admin_id)
            /\ track' = TrackDecide(TRUE,
                            Len(get_pending_media(pending_media)) = QueueCeiling)
            /\ UNCHANGED <<config, now, nextId>>
    ELSE /\ ret' = [op |-> op, id |-> media_id, val |-> Some(FALSE), cleaned |-> {}]
         /\ UNCHANGED <<pending_media, file, config, now, nextId, decided, track>>

approve_media(media_id, admin_id, s1, s2) ==
    set_decision("approve_media", TRUE, media_id, admin_id, s1, s2)

reject_media(media_id, admin_id, s1, s2) ==
    set_decision("reject_media", FALSE, media_id, admin_id, s1, s2)

\* remove_processed_media called on its own
remove_processed_media(media_id, s) ==
    LET r == RemoveProcessed(pending_media, file, media_id, s)
    IN /\ pending_media' = r[1]
       /\ file' = r[2]
       /\ ret' = [op |-> "remove_processed_media", id |-> media_id,
                  val |-> Some(Processed(pending_media, media_id)), cleaned |-> {}]
       /\ UNCHANGED <<config, now, nextId, decided, track>>

\* _cleanup_old_media called on its own
_cleanup_old_media(s) ==
    LET q1 == Cleaned(pending_media, now)
    IN /\ pending_media' = q1
       /\ file' = IF old_processed_media_ids(pending_media, now) # {}
                  THEN save_pending_media(file, q1, s) ELSE file
       /\ ret' = [op |-> "_cleanup_old_media", id |-> 0, val |-> None,
                  cleaned |-> old_processed_media_ids(pending_media, now)]
       /\ UNCHANGED <<config, now, nextId, decided, track>>

\* time passes
Tick(d) ==
    /\ now' = now + d
    /\ UNCHANGED <<pending_media, file, config, nextId, ret, decided, track>>

\* ------------------------------------------------------------ text

\* A str is the sequence of its characters.  A Latin letter, a digit, a space
\* and an underscore stand for themselves; a Persian letter goes by its name
\* and the zero-width non-joiner is "ZWNJ".
Alphabet ==
    <<"a", "b", "c", "d", "e", "f", "g", "h", "i", "j", "k", "l", "m",
      "n", "o", "p", "q", "r", "s", "t", "u", "v", "w", "x", "y", "z">>

Capitals ==
    <<"A", "B", "C", "D", "E", "F", "G", "H", "I", "J", "K", "L", "M",
      "N", "O", "P", "Q", "R", "S", "T", "U", "V", "W", "X", "Y", "Z">>

Range(s) == {s[i] : i \in 1..Len(s)}

CapitalLetters == Range(Capitals)

\* str.lower(), character by character
LowerChar(c) ==
    IF c \in CapitalLetters
    THEN Alphabet[CHOOSE i \in 1..Len(Capitals) : Capitals[i] = c]
    ELSE c

Lower(text) == [i \in 1..Len(text) |-> LowerChar(text[i])]

\* the characters that are not \w: a \b falls between one of them, or an end
\* of the string, and a \w character
NonWordChars == {" ", ".", ",", "!", "-", "ZWNJ"}

IsWordChar(c) == c \notin NonWordChars

\* word occurs in text at position i
OccursAt(text, word, i) ==
    /\ i >= 1
    /\ i + Len(word) - 1 <= Len(text)
    /\ \A k \in 1..Len(word) : text[i + k - 1] = word[k]

\* `word in text` for two str
IsSubstring(word, text) ==
    \E i \in 1..(Len(text) + 1) : OccursAt(text, word, i)

\* \b at the gap in front of position i
Boundary(text, i) ==
    LET before == i > 1 /\ IsWordChar(text[i - 1])
        after == i <= Len(text) /\ IsWordChar(text[i])
    IN before # after

\* the positions where re.compile(left + re.escape(word) + right,
\* re.IGNORECASE) matches, left and right being \b or empty
Matches(text, word, left, right) ==
    LET folded == Lower(text)
        pattern == Lower(word)
    IN {i \in 1..Len(text) :
            /\ OccursAt(folded, pattern, i)
            /\ left => Boundary(text, i)
            /\ right => Boundary(text, i + Len(word))}

\* pattern.search(text).group(0) when pattern.search(text) is not None: the
\* text the leftmost match covers, in a set that is empty without a match
Search(text, word, left, right) ==
    LET at == Matches(text, word, left, right)
    IN IF at = {} THEN {}
       ELSE LET i == CHOOSE i \in at : \A j \in at : i <= j
            IN {SubSeq(text, i, i + Len(word) - 1)}

\* ------------------------------------------------------------ badwords.py

\* BAD_WORDS: the Persian, the Finglish and the English words
BAD_WORDS ==
    <<<<"KAF", "YE", "RE">>, <<"KAF", "SAD">>,
      <<"JIM", "NUN", "DAL", "HE">>, <<"KAF", "SIN", "KHE", "LAM">>,
      <<"JIM", "ALEF", "KAF", "SHIN">>, <<"KAF", "VAV", "NUN">>,
      <<"LAM", "ALEF", "SHIN", "YE">>,
      <<"BE", "YE", "ZWNJ", "SHIN", "RE", "FE">>, <<"k", "i", "r">>,
      <<"k", "o", "s", "k", "e", "s", "h">>, <<"k", "o", "s">>,
      <<"k", "o", "s", "k", "h", "o", "l">>,
      <<"j", "a", "k", "e", "s", "h">>, <<"k", "o", "o", "n">>,
      <<"l", "a", "s", "h", "i">>,
      <<"b", "i", "s", "h", "a", "r", "a", "f">>, <<"f", "u", "c", "k">>,
      <<"s", "h", "i", "t">>, <<"b", "i", "t", "c", "h">>,
      <<"a", "s", "s", "h", "o", "l", "e">>,
      <<"f", "u", "c", "k", "e", "r">>, <<"d", "i", "c", "k">>,
      <<"p", "u", "s", "s", "y">>, <<"b", "a", "s", "t", "a", "r", "d">>>>

\* text.lower().replace(" ", "").replace("_", "")
cleaned(text) == SelectSeq(Lower(text), LAMBDA c : c \notin {" ", "_"})

\* contains_bad_words: False for an empty text, else whether a word of
\* BAD_WORDS is a substring of the cleaned text
contains_bad_words(text) ==
    LET stripped == cleaned(text)
    IN /\ text # <<>>
       /\ \E k \in 1..Len(BAD_WORDS) : IsSubstring(BAD_WORDS[k], stripped)

\* ------------------------------------------------------------ ProfanityFilter

\* default_words["english"]
default_english ==
    <<<<"f", "u", "c", "k">>, <<"s", "h", "i", "t">>,
      <<"d", "a", "m", "n">>, <<"b", "i", "t", "c", "h">>,
      <<"a", "s", "s", "h", "o", "l", "e">>,
      <<"b", "a", "s", "t", "a", "r", "d">>, <<"c", "r", "a", "p">>,
      <<"p", "i", "s", "s">>, <<"h", "e", "l", "l">>,
      <<"b", "l", "o", "o", "d", "y">>, <<"s", "t", "u", "p", "i", "d">>,
      <<"i", "d", "i", "o", "t">>, <<"m", "o", "r", "o", "n">>,
      <<"d", "u", "m", "b">>, <<"w", "t", "f">>, <<"o", "m", "g">>,
      <<"l", "m", "a", "o">>, <<"l", "o", "l">>, <<"s", "t", "f", "u">>,
      <<"g", "t", "f", "o">>, <<"f", "m", "l">>, <<"b", "s">>>>

\* default_words["persian"]
default_persian ==
    <<<<"KAF", "YE", "RE">>, <<"KAF", "SIN">>,
      <<"JIM", "NUN", "DAL", "HE">>, <<"LAM", "ALEF", "SHIN", "YE">>,
      <<"HEH", "RE", "VAV", "MIM", "ZE", "ALEF", "DAL", "HE">>,
      <<"KAF", "VAV", "NUN", "YE">>, <<"GAF", "ALEF", "VAV">>,
      <<"KHE", "RE">>, <<"ALEF", "HEH", "MIM", "QAF">>,
      <<"MIM", "SIN", "KHE", "RE", "HE">>, <<"CHE", "RE", "TE">>,
      <<"MIM", "ZE", "KHE", "RE", "FE">>, <<"RE", "YE", "DAL", "MIM">>,
      <<"GAF", "HE">>, <<"AYN", "NUN">>, <<"KAF", "SE", "YE", "FE">>,
      <<"LAM", "AYN", "NUN", "TE", "YE">>,
      <<"BE", "YE", "NUN", "ALEF", "MIM", "VAV", "SIN">>,
      <<"HE", "RE", "ZE", "HE">>, <<"PE", "DAL", "RE", "SIN", "GAF">>,
      <<"MIM", "ALEF", "DAL", "RE", "JIM", "NUN", "DAL", "HE">>,
      <<"KHE", "ALEF", "RE", "KAF", "SIN", "DAL", "HE">>,
      <<"KAF", "VAV", "SIN", "KAF", "SHIN">>,
      <<"HEH", "RE", "ALEF", "MIM", "ZE", "ALEF", "DAL", "HE">>,
      <<"KAF", "SIN", "KHE", "LAM">>>>

\* _compile_patterns: the words that come with transliterations, and these
transliterations ==
    <<<<<<"KAF", "YE", "RE">>, <<<<"k", "i", "r">>, <<"k", "e", "e", "r">>, <<"k", "y", "r">>>>>>,
      <<<<"KAF", "SIN">>, <<<<"k", "o", "s">>, <<"k", "o", "s", "s">>, <<"k", "h", "a", "s">>>>>>,
      <<<<"JIM", "NUN", "DAL", "HE">>, <<<<"j", "e", "n", "d", "e">>, <<"j", "a", "n", "d", "e">>, <<"j", "a", "n", "d", "e", "h">>>>>>,
      <<<<"LAM", "ALEF", "SHIN", "YE">>, <<<<"l", "a", "s", "h", "i">>, <<"l", "a", "s", "h", "y">>>>>>,
      <<<<"HEH", "RE", "VAV", "MIM", "ZE", "ALEF", "DAL", "HE">>, <<<<"h", "a", "r", "o", "o", "m", "z", "a", "d", "e", "h">>, <<"h", "a", "r", "u", "m", "z", "a", "d", "e", "h">>>>>>,
      <<<<"KAF", "VAV", "NUN", "YE">>, <<<<"k", "o", "o", "n", "i">>, <<"k", "u", "n", "i">>>>>>>>

\* _load_profanity_words when data/profanity_words.json does not exist
default_words == [english |-> default_english, persian |-> default_persian]

\* what the patterns of one language find in a text
found_english(words, text) ==
    UNION {Search(text, words.english[k], TRUE, TRUE) : k \in 1..Len(words.english)}

\* the three patterns of a Persian word: \bword, word\b and word
found_persian(words, text) ==
    UNION {Search(text, words.persian[k], TRUE, FALSE)
            \cup Search(text, words.persian[k], FALSE, TRUE)
            \cup Search(text, words.persian[k], FALSE, FALSE)
           : k \in 1..Len(words.persian)}

\* \b(a|b|c)\b: the leftmost place where an alternative matches
SearchAny(text, alts) ==
    LET at == UNION {Matches(text, alts[k], TRUE, TRUE) : k \in 1..Len(alts)}
    IN IF at = {} THEN {}
       ELSE LET i == CHOOSE i \in at : \A j \in at : i <= j
            IN {SubSeq(text, i, i + Len(alts[k]) - 1) :
                    k \in {n \in 1..Len(alts) : i \in Matches(text, alts[n], TRUE, TRUE)}}

found_persian_latin(words, text) ==
    UNION {SearchAny(text, transliterations[k][2]) :
            k \in {n \in 1..Len(transliterations) :
                        transliterations[n][1] \in Range(words.persian)}}

\* contains_profanity: the pair (len(found_words) > 0, list(set(found_words)))
contains_profanity(words, text) ==
    LET found_words == found_english(words, text) \cup found_persian(words, text)
                            \cup found_persian_latin(words, text)
    IN <<found_words # {}, found_words>>

\* Every word the lists of the filter hold in these specifications.  A list
\* is held as the sequence of the places its words have here, and so is a
\* list of compiled patterns: as the places of the words they were compiled
\* from.
Vocabulary == default_english \o default_persian \o <<<<"h", "e", "l", "l", "o">>, <<"W", "t", "f">>>>

Place(word) == CHOOSE i \in 1..Len(Vocabulary) : Vocabulary[i] = word

Places(list) == [k \in 1..Len(list) |-> Place(list[k])]

Spelled(places) == [k \in 1..Len(places) |-> Vocabulary[places[k]]]

\* default_words, as it is held
default_lists == [english |-> Places(default_english), persian |-> Places(default_persian)]

\* self.patterns as _compile_patterns sets it before it fills it
no_patterns == [english |-> <<>>, persian |-> <<>>, persian_latin |-> <<>>]

\* self.profanity_words.get(language, [])
words_get(words, language) ==
    IF language \in DOMAIN words THEN words[language] ELSE <<>>

\* the Persian words _compile_patterns knows transliterations of
transliterated == {transliterations[n][1] : n \in 1..Len(transliterations)}

\* _compile_patterns: the \bword\b of each English word, the \bword, word\b
\* and word of each Persian word, and the \b(...)\b of each Persian word with
\* transliterations
_compile_patterns(words) ==
    [english |-> words_get(words, "english"),
     persian |-> words_get(words, "persian"),
     persian_latin |-> SelectSeq(words_get(words, "persian"),
                                 LAMBDA i : Vocabulary[i] \in transliterated)]

\* contains_profanity on the patterns the filter holds
classify(pats, text) ==
    LET found_words ==
            found_english([english |-> Spelled(pats.english)], text)
            \cup found_persian([persian |-> Spelled(pats.persian)], text)
            \cup found_persian_latin([persian |-> Spelled(pats.persian_latin)], text)
    IN <<found_words # {}, found_words>>

\* the patterns of the default words
default_patterns == _compile_patterns(default_lists)

\* high_severity_words of get_severity_score
high_severity_words ==
    <<<<"f", "u", "c", "k">>, <<"KAF", "YE", "RE">>, <<"KAF", "SIN">>,
      <<"j", "e", "n", "d", "e">>, <<"k", "i", "r">>, <<"k", "o", "s">>,
      <<"HEH", "RE", "ALEF", "MIM", "ZE", "ALEF", "DAL", "HE">>,
      <<"KAF", "VAV", "SIN", "KAF", "SHIN">>>>

\* a test of the found word that no word passes
never_severe(word) == FALSE

\* any(severe in word.lower() for severe in high_severity_words)
any_severe(word) ==
    \E k \in 1..Len(high_severity_words) : IsSubstring(high_severity_words[k], Lower(word))

\* the loop of get_severity_score over found_words
RECURSIVE add_severity(_, _)
add_severity(score, found_words) ==
    IF found_words = {} THEN score
    ELSE LET word == CHOOSE word \in found_words : TRUE
         IN add_severity(IF any_severe(word) THEN score + 3 ELSE score, found_words \ {word})

\* get_severity_score of the filter that holds the patterns
get_severity_score(pats, text) ==
    LET found == classify(pats, text)
    IN IF ~found[1] THEN 0
       ELSE Min(add_severity(Cardinality(found[2]) * 2, found[2]), 10)

\* list.remove(x): the list without the first x
list_remove(list, x) ==
    LET i == CHOOSE i \in 1..Len(list) : list[i] = x /\ \A j \in 1..(i - 1) : list[j] # x
    IN SubSeq(list, 1, i - 1) \o SubSeq(list, i + 1, Len(list))

\* json.dump of the word lists and json.load of what it wrote: a dict of
\* lists of str comes back as it went in, key by key and word by word
json_dump(words) == Some([lang \in DOMAIN words |-> words[lang]])

json_load(f) == CHOOSE words \in f : TRUE

\* _load_profanity_words: the defaults when there is no file; else the lists
\* of the file, with the default list for a language the file does not have
\* and, at the end of a list it has, the default words that list lacks
_load_profanity_words(f) ==
    IF f = None THEN default_lists
    ELSE LET words == json_load(f)
         IN [lang \in DOMAIN words \cup DOMAIN default_lists |->
                IF lang \notin DOMAIN words THEN default_lists[lang]
                ELSE IF lang \notin DOMAIN default_lists THEN words[lang]
                ELSE words[lang] \o SelectSeq(default_lists[lang],
                                              LAMBDA w : w \notin Range(words[lang]))]

\* no call of add_word or remove_word is under way
NoMutation == [pc |-> "idle", op |-> "", user_id |-> 0, word |-> <<>>, language |-> ""]

\* a screening step that lets everything through
Unscreened(x) == FALSE

\* bool(x) of a tuple x, as `if x:` takes it: whether the tuple has elements
Truthy(x) == Len(x) > 0

\* ------------------------------------------------------------ Config

\* an allow-list that lets every user in
EveryUser(user_id) == TRUE

\* Config.is_admin
is_admin(user_id) ==
    user_id = config.ADMIN_USER_ID \/ user_id \in config.ADDITIONAL_ADMIN_IDS

\* ------------------------------------------------------------ UserManager

\* an empty dict, and an empty table
EmptyDict == [k \in {} |-> 0]

Digits == <<"1", "2", "3", "4", "5", "6", "7", "8", "9">>

\* f"کاربر شماره {user_number}"
DefaultName(user_number) ==
    <<"KAF", "ALEF", "RE", "BE", "RE", " ",
      "SHIN", "MIM", "ALEF", "RE", "HE", " ", Digits[user_number]>>

UserProfile(telegram_username, display_name, user_number, registration_date, message_count, is_banned) ==
    [telegram_username |-> telegram_username, display_name |-> display_name,
     user_number |-> user_number, registration_date |-> registration_date,
     message_count |-> message_count, is_banned |-> is_banned]

\* a numbering that leaves one number out
number_after_next(u) == Cardinality(DOMAIN u) + 2

\* SELECT MAX(user_number) FROM users, 0 for an empty table, plus one
_get_next_user_number(u) ==
    LET numbers == {u[k].user_number : k \in DOMAIN u}
    IN IF numbers = {} THEN 1
       ELSE (CHOOSE n \in numbers : \A m \in numbers : m <= n) + 1

\* a register_user without the SELECT for an existing row: the row is written
\* anew, with the next number
register_anew(u, user_id, telegram_username, t) ==
    LET row == UserProfile(telegram_username, DefaultName(_get_next_user_number(u)),
                           _get_next_user_number(u), t, 0, FALSE)
    IN <<[k \in DOMAIN u \cup {user_id} |-> IF k = user_id THEN row ELSE u[k]],
         "registered", Some(row)>>

\* register_user: the triple <<table, outcome, returned profile>>.  The INSERT
\* fails when another row holds the display name or the number (both columns
\* are UNIQUE); the handler of the IntegrityError calls register_user again on
\* the same table, which fails the same way until the interpreter raises
\* RecursionError.
register_user(u, user_id, telegram_username, t) ==
    IF user_id \in DOMAIN u THEN <<u, "exists", Some(u[user_id])>>
    ELSE LET user_number == _get_next_user_number(u)
             display_name == DefaultName(user_number)
         IN IF \E k \in DOMAIN u : u[k].display_name = display_name
                                    \/ u[k].user_number = user_number
            THEN <<u, "RecursionError", None>>
            ELSE <<u @@ (user_id :> UserProfile(telegram_username, display_name,
                                                user_number, t, 0, FALSE)),
                   "registered",
                   Some(UserProfile(telegram_username, display_name,
                                    user_number, t, 0, FALSE))>>

\* get_user_profile: the row, or None
get_user_profile(u, user_id) ==
    IF user_id \in DOMAIN u THEN Some(u[user_id]) ELSE None

\* an UPDATE on a column without the UNIQUE constraint
set_display_name_unchecked(u, user_id, new_name) ==
    IF user_id \notin DOMAIN u THEN <<u, TRUE>>
    ELSE <<[u EXCEPT ![user_id].display_name = new_name], TRUE>>

\* set_display_name: the pair <<table, returned bool>>.  The UPDATE raises
\* IntegrityError when it would give the row a display name another row
\* holds; an UPDATE that matches no row changes nothing and raises nothing.
set_display_name(u, user_id, new_name) ==
    IF user_id \notin DOMAIN u THEN <<u, TRUE>>
    ELSE IF \E k \in DOMAIN u \ {user_id} : u[k].display_name = new_name
         THEN <<u, FALSE>>
         ELSE <<[u EXCEPT ![user_id].display_name = new_name], TRUE>>

\* set_user_setting_name_mode
set_user_setting_name_mode(cache, user_id, mode) ==
    [k \in DOMAIN cache \cup {user_id} |-> IF k = user_id THEN mode ELSE cache[k]]

\* is_user_setting_name_mode: self._setting_name_cache.get(user_id, False)
is_user_setting_name_mode(cache, user_id) ==
    user_id \in DOMAIN cache /\ cache[user_id]

\* increment_message_count: an UPDATE, which changes the row if there is one
increment_message_count(u, user_id) ==
    IF user_id \in DOMAIN u
    THEN [u EXCEPT ![user_id].message_count = @ + 1]
    ELSE u

\* a gate that is always open
never_banned(u, user_id) == FALSE

\* is_user_banned
is_user_banned(u, user_id) ==
    user_id \in DOMAIN u /\ u[user_id].is_banned

\* ban_user and unban_user: the pair <<table, returned bool>>
set_banned(u, user_id, banned) ==
    IF user_id \in DOMAIN u
    THEN <<[u EXCEPT ![user_id].is_banned = banned], TRUE>>
    ELSE <<u, FALSE>>

\* ------------------------------------------------------------ messages

\* the caption of the items of these specifications
Caption == <<"h", "i">>

\* the texts and captions of the updates of these specifications
Hello == <<"h", "e", "l", "l", "o">>
Curse == <<"F", "u", "_", "c", " ", "K">>
Swear == <<"W", "t", "f">>
Texts == {Caption, Hello, Curse, Swear}

\* user.username, the name a user goes by at Telegram
User == <<"u", "s", "e", "r">>
Other == <<"o", "t", "h", "e", "r">>

\* the texts users send as display names: two names of valid length, one
\* that is too short, one of valid length that is a word of the lexicon, and
\* the default name of the second user to register
Ali == <<"A", "l", "i">>
Sam == <<"S", "a", "m">>
Al == <<"A", "l">>
Names == {Ali, Sam, Al, Swear, DefaultName(2)}

\* the words admins add to the lists and remove from them, which are also the
\* texts users send while they do: a default English word, a default Persian
\* word that begins with another one, a word that is in no default list, and
\* the first one with a capital letter
Wtf == <<"w", "t", "f">>
Koskhol == <<"KAF", "SIN", "KHE", "LAM">>
LexiconWords == {Wtf, Koskhol, Hello, Swear}

\* context.args[0].lower(): the keys of the lists, and the tag the usage
\* message of /add_profanity shows
Languages == {"english", "persian", "fa"}

\* self.profanity_filter.contains_profanity(text) of the filter main.py builds
\* with no data/profanity_words.json, worked out once for each of the texts
profanity_filter == [text \in Texts \cup Names \cup LexiconWords \cup {<<>>} |-> contains_profanity(default_words, text)]

\* self.profanity_filter.contains_profanity(text) of the filter as it is now
screen(text) ==
    IF patterns = default_patterns THEN profanity_filter[text]
    ELSE classify(patterns, text)

\* contains_bad_words(text) of badwords.py, worked out once for each of them
bad_words == [text \in Texts \cup {<<>>} |-> contains_bad_words(text)]

\* ------------------------------------------------------------ BotHandlers

\* the methods class MediaManager defines
MediaManagerMethods ==
    {"__init__", "load_pending_media", "save_pending_media",
     "add_pending_media", "get_media", "get_pending_media", "approve_media",
     "reject_media", "get_media_stats", "_get_oldest_pending_time",
     "_cleanup_old_media", "remove_processed_media"}

\* the media types handle_media_message passes on
SupportedMedia == {"photo", "video", "document", "audio", "voice", "animation"}

\* f"ارسالی از: {display_name}\n\n{caption}"
final_caption(display_name, caption) == [from |-> display_name, body |-> caption]

\* one bot.send_* call to a chat
Sent(method, chat_id, file_id, text) ==
    [method |-> method, chat_id |-> chat_id, file_id |-> file_id, text |-> text]

\* the call _send_media_to_channel makes
_send_media_to_channel(chat_id, media_type, file_id, caption, display_name) ==
    IF media_type \in SupportedMedia
    THEN Sent("send_" \o media_type, chat_id, file_id,
              final_caption(display_name, caption))
    ELSE Sent("send_message", chat_id, None, final_caption(display_name, caption))

\* handle_text_message: the name a text goes out under
text_display_name(u, user_id, username) ==
    LET user_profile == get_user_profile(u, user_id)
    IN IF user_profile # None
       THEN (CHOOSE p \in user_profile : TRUE).display_name
       ELSE username

\* handle_media_message: the name it hands on, to the queue or to the channel
media_username(u, user_id, username) ==
    LET user_profile == get_user_profile(u, user_id)
    IN IF user_profile # None
       THEN (CHOOSE p \in user_profile : TRUE).telegram_username
       ELSE username

\* _handle_media_approval: the name an approved item goes out under
approval_display_name(u, media_item) ==
    LET user_profile == get_user_profile(u, media_item.user_id)
    IN IF user_profile # None
       THEN (CHOOSE p \in user_profile : TRUE).display_name
       ELSE media_item.username

\* the send of handle_text_message when no admin approval is configured
direct_text(u, user_id, username, message_text) ==
    Sent("send_message", config.CHANNEL_ID, None,
         final_caption(text_display_name(u, user_id, username), message_text))

\* the send of handle_media_message when no admin approval is configured
direct_media(u, user_id, username, media_type, file_id, caption) ==
    _send_media_to_channel(config.CHANNEL_ID, media_type, file_id, caption,
                           media_username(u, user_id, username))

\* the send of _handle_media_approval for an item that was approved
approved_send(u, media_item) ==
    _send_media_to_channel(config.CHANNEL_ID, media_item.media_type,
                           media_item.file_id, media_item.caption,
                           approval_display_name(u, media_item))

\* A handler has returned, or raised: what it leaves behind.  The Application
\* of main.py:70 is built without concurrent_updates, so it takes the next
\* update when the handler of this one is through.
Finished(handler, user_id, outcome, u, cache, st, ch) ==
    /\ users' = u
    /\ setting_name' = cache
    /\ stats' = st
    /\ channel' = ch
    /\ handled' = [handler |-> handler, user_id |-> user_id, outcome |-> outcome]

Processed1(st) == [st EXCEPT !.messages_processed = @ + 1]

\* start_command, with the show_main_menu it ends in
start_command(user_id, username) ==
    LET r == register_user(users, user_id, username, now)
        u1 == increment_message_count(r[1], user_id)
        u2 == increment_message_count(u1, user_id)
    IN /\ UNCHANGED <<mmvars, callbacks>>
       /\ screened' = None
       /\ IF r[2] = "RecursionError"
          THEN Finished("start_command", user_id, "RecursionError",
                        users, setting_name, stats, channel)
          ELSE IF is_user_banned(u1, user_id)
          THEN Finished("start_command", user_id, "banned",
                        u1, setting_name, Processed1(stats), channel)
          ELSE Finished("start_command", user_id, "menu",
                        u2, setting_name, Processed1(Processed1(stats)), channel)

\* set_name_command
set_name_command(user_id) ==
    LET u1 == increment_message_count(users, user_id)
    IN /\ UNCHANGED <<mmvars, callbacks>>
       /\ screened' = None
       /\ IF is_user_banned(u1, user_id)
          THEN Finished("set_name_command", user_id, "banned",
                        u1, setting_name, Processed1(stats), channel)
          ELSE Finished("set_name_command", user_id, "asked",
                        u1, set_user_setting_name_mode(setting_name, user_id, TRUE),
                        Processed1(stats), channel)

\* cancel_command: it has no test for a banned user
cancel_command(user_id) ==
    LET u1 == increment_message_count(users, user_id)
    IN /\ UNCHANGED <<mmvars, callbacks>>
       /\ screened' = None
       /\ IF is_user_setting_name_mode(setting_name, user_id)
          THEN Finished("cancel_command", user_id, "cancelled",
                        u1, set_user_setting_name_mode(setting_name, user_id, FALSE),
                        Processed1(stats), channel)
          ELSE Finished("cancel_command", user_id, "nothing_to_cancel",
                        u1, setting_name, Processed1(stats), channel)

\* the try blocks that publish (handle_text_message, handle_media_message,
\* _handle_media_approval): the send to the channel, then the message to the
\* submitter, then self.stats["messages_posted"] += 1; a TelegramError of
\* either send leaves the block.  The pair <<channel, stats>> it leaves.
post_and_count(ch, st, payload, sent, notified) ==
    IF ~sent THEN <<ch, st>>
    ELSE IF ~notified THEN <<Append(ch, payload), st>>
    ELSE <<Append(ch, payload), [st EXCEPT !.messages_posted = @ + 1]>>

\* add_profanity_command with a language and a word, as far as the append of
\* add_word; the statements after it are steps of their own.  For a word the
\* list has and for a language without a list add_word logs and returns, and
\* the reply is the same.
add_profanity_command(user_id, language, word) ==
    LET u1 == increment_message_count(users, user_id)
        st1 == Processed1(stats)
    IN /\ UNCHANGED <<mmvars, callbacks>>
       /\ screened' = None
       /\ IF ~is_admin(user_id)
          THEN /\ Finished("add_profanity_command", user_id, "unauthorized",
                           u1, setting_name, st1, channel)
               /\ UNCHANGED lexvars
          ELSE IF /\ language \in DOMAIN profanity_words
                  /\ Place(word) \notin Range(profanity_words[language])
          THEN /\ profanity_words' = [profanity_words EXCEPT ![language] = Append(@, Place(word))]
               /\ mutation' = [pc |-> "compile", op |-> "add_word", user_id |-> user_id,
                               word |-> word, language |-> language]
               /\ users' = u1
               /\ stats' = st1
               /\ UNCHANGED <<setting_name, channel, handled, patterns, words_file, restarts>>
          ELSE /\ Finished("add_profanity_command", user_id, "added",
                           u1, setting_name, st1, channel)
               /\ UNCHANGED lexvars

\* remove_profanity_command with a language and a word, as far as the
\* list.remove of remove_word
remove_profanity_command(user_id, language, word) ==
    LET u1 == increment_message_count(users, user_id)
        st1 == Processed1(stats)
    IN /\ UNCHANGED <<mmvars, callbacks>>
       /\ screened' = None
       /\ IF ~is_admin(user_id)
          THEN /\ Finished("remove_profanity_command", user_id, "unauthorized",
                           u1, setting_name, st1, channel)
               /\ UNCHANGED lexvars
          ELSE IF /\ language \in DOMAIN profanity_words
                  /\ Place(word) \in Range(profanity_words[language])
          THEN /\ profanity_words' = [profanity_words EXCEPT ![language] = list_remove(@, Place(word))]
               /\ mutation' = [pc |-> "compile", op |-> "remove_word", user_id |-> user_id,
                               word |-> word, language |-> language]
               /\ users' = u1
               /\ stats' = st1
               /\ UNCHANGED <<setting_name, channel, handled, patterns, words_file, restarts>>
          ELSE /\ Finished("remove_profanity_command", user_id, "not_found",
                           u1, setting_name, st1, channel)
               /\ UNCHANGED lexvars

\* _compile_patterns as add_word and remove_word call it: self.patterns is
\* set to three empty lists
reset_patterns ==
    /\ mutation.pc = "compile"
    /\ patterns' = no_patterns
    /\ mutation' = [mutation EXCEPT !.pc = "fill"]
    /\ UNCHANGED <<mmvars, botvars, profanity_words, words_file, restarts>>

\* and the loops fill them
fill_patterns ==
    /\ mutation.pc = "fill"
    /\ patterns' = _compile_patterns(profanity_words)
    /\ mutation' = [mutation EXCEPT !.pc = "save"]
    /\ UNCHANGED <<mmvars, botvars, profanity_words, words_file, restarts>>

\* _save_profanity_words, which logs an error it meets and goes on; add_word
\* or remove_word returns, and the command replies
save_profanity_words(outcome) ==
    /\ mutation.pc = "save"
    /\ words_file' = IF outcome = "ok" THEN json_dump(profanity_words) ELSE words_file
    /\ mutation' = NoMutation
    /\ handled' = IF mutation.op = "add_word"
                  THEN [handler |-> "add_profanity_command",
                        user_id |-> mutation.user_id, outcome |-> "added"]
                  ELSE [handler |-> "remove_profanity_command",
                        user_id |-> mutation.user_id, outcome |-> "removed"]
    /\ UNCHANGED <<mmvars, users, setting_name, stats, channel, callbacks, screened>>
    /\ UNCHANGED <<profanity_words, patterns, restarts>>

\* ban_user_command with a numeric argument
ban_user_command(user_id, target_user_id) ==
    LET u1 == increment_message_count(users, user_id)
        r == set_banned(u1, target_user_id, TRUE)
    IN /\ UNCHANGED <<mmvars, callbacks>>
       /\ screened' = None
       /\ IF ~is_admin(user_id)
          THEN Finished("ban_user_command", user_id, "unauthorized",
                        u1, setting_name, Processed1(stats), channel)
          ELSE Finished("ban_user_command", user_id,
                        IF r[2] THEN "banned" ELSE "not_found",
                        r[1], setting_name, Processed1(stats), channel)

\* _set_user_display_name, on the table u the caller has left
_set_user_display_name(user_id, new_name, u, st) ==
    IF Len(new_name) < 3 \/ Len(new_name) > 20
    THEN Finished("handle_text_message", user_id, "name_invalid", u,
                  set_user_setting_name_mode(setting_name, user_id, FALSE),
                  st, channel)
    ELSE LET r == set_display_name(u, user_id, new_name)
         IN IF ~r[2]
            THEN Finished("handle_text_message", user_id, "name_taken", r[1],
                          set_user_setting_name_mode(setting_name, user_id, FALSE),
                          st, channel)
            ELSE IF get_user_profile(r[1], user_id) = None
            \* user_profile.display_name of None: the mode is not reset
            THEN Finished("handle_text_message", user_id, "AttributeError", r[1],
                          setting_name, st, channel)
            ELSE Finished("handle_text_message", user_id, "name_set", r[1],
                          set_user_setting_name_mode(setting_name, user_id, FALSE),
                          st, channel)

\* handle_text_message for a message with a text.  sent tells whether Telegram
\* accepts the send to the channel; s1 and s2 are the outcomes of the saves.
handle_text_message(user_id, username, message_id, message_text, sent, s1, s2) ==
    LET u1 == increment_message_count(users, user_id)
        st1 == Processed1(stats)
        display_name == text_display_name(u1, user_id, username)
    IN /\ UNCHANGED callbacks
       /\ screened' = IF \/ is_user_banned(u1, user_id)
                         \/ is_user_setting_name_mode(setting_name, user_id)
                      THEN None
                      ELSE Some(screen(message_text)[1])
       /\ IF is_user_banned(u1, user_id)
          THEN /\ Finished("handle_text_message", user_id, "banned",
                           u1, setting_name, st1, channel)
               /\ UNCHANGED mmvars
          ELSE IF is_user_setting_name_mode(setting_name, user_id)
          THEN /\ _set_user_display_name(user_id, message_text, u1, st1)
               /\ UNCHANGED mmvars
          ELSE IF Truthy(screen(message_text))
          THEN /\ Finished("handle_text_message", user_id, "filtered", u1,
                           setting_name,
                           [st1 EXCEPT !.messages_filtered = @ + 1], channel)
               /\ UNCHANGED mmvars
          ELSE IF config.ADMIN_USER_ID # 0
          \* _send_message_for_approval
          THEN /\ add_pending_media(user_id, display_name, message_id, "text",
                                    None, message_text, s1, s2)
               /\ Finished("handle_text_message", user_id,
                           IF ret'.val # None THEN "queued" ELSE "queue_full",
                           u1, setting_name,
                           [st1 EXCEPT !.media_pending = @ + 1], channel)
          ELSE /\ UNCHANGED mmvars
               /\ IF sent
                  THEN Finished("handle_text_message", user_id, "posted", u1,
                                setting_name,
                                [st1 EXCEPT !.messages_posted = @ + 1],
                                Append(channel, direct_text(u1, user_id, username,
                                                            message_text)))
                  ELSE Finished("handle_text_message", user_id, "TelegramError",
                                u1, setting_name, st1, channel)

\* handle_media_message.  media_type is the attachment the message carries:
\* one of SupportedMedia, "sticker", or something else.
handle_media_message(user_id, username, message_id, media_type, caption, sent, s1, s2) ==
    LET u1 == increment_message_count(users, user_id)
        st1 == Processed1(stats)
        name == media_username(u1, user_id, username)
    IN /\ UNCHANGED callbacks
       /\ screened' = IF \/ is_user_banned(u1, user_id)
                         \/ is_user_setting_name_mode(setting_name, user_id)
                         \/ media_type \notin SupportedMedia
                      THEN None
                      ELSE Some(screen(caption)[1])
       /\ IF is_user_banned(u1, user_id)
          THEN /\ Finished("handle_media_message", user_id, "banned",
                           u1, setting_name, st1, channel)
               /\ UNCHANGED mmvars
          ELSE IF is_user_setting_name_mode(setting_name, user_id)
          THEN /\ Finished("handle_media_message", user_id, "name_pending",
                           u1, setting_name, st1, channel)
               /\ UNCHANGED mmvars
          ELSE IF media_type \notin SupportedMedia
          THEN /\ Finished("handle_media_message", user_id,
                           IF media_type = "sticker" THEN "sticker" ELSE "unsupported",
                           u1, setting_name, st1, channel)
               /\ UNCHANGED mmvars
          ELSE IF Truthy(screen(caption))
          THEN /\ Finished("handle_media_message", user_id, "filtered", u1,
                           setting_name,
                           [st1 EXCEPT !.messages_filtered = @ + 1], channel)
               /\ UNCHANGED mmvars
          ELSE IF config.ADMIN_USER_ID # 0
          \* after a successful add, _send_media_for_approval asks the
          \* MediaManager for get_media_item
          THEN /\ add_pending_media(user_id, name, message_id, media_type,
                                    Some("file"), caption, s1, s2)
               /\ Finished("handle_media_message", user_id,
                           IF ret'.val = None THEN "queue_full"
                           ELSE IF "get_media_item" \in MediaManagerMethods
                                THEN "asked" ELSE "AttributeError",
                           u1, setting_name,
                           [st1 EXCEPT !.media_pending = @ + 1], channel)
          ELSE /\ UNCHANGED mmvars
               /\ IF sent
                  THEN Finished("handle_media_message", user_id, "posted", u1,
                                setting_name,
                                [st1 EXCEPT !.messages_posted = @ + 1],
                                Append(channel, direct_media(u1, user_id, username,
                                            media_type, Some("file"), caption)))
                  ELSE Finished("handle_media_message", user_id, "TelegramError",
                                u1, setting_name, st1, channel)

\* the decide callbacks of admins seen for an id: how many (2 stands for two
\* or more) and whether the item was Unset when the first of them arrived
Seen(media_id) ==
    IF media_id \in DOMAIN callbacks
    THEN [callbacks EXCEPT ![media_id].count = Min(2, @ + 1)]
    ELSE callbacks @@ (media_id :> [count |-> 1,
                                    unset |-> Undecided(pending_media, media_id)])

\* _handle_media_approval: its first statement calls
\* self.media_manager.get_media_item, which MediaManager does not define; the
\* AttributeError leaves the handler before anything is changed.
_handle_media_approval(media_id, approved, admin_id, u, st) ==
    /\ "get_media_item" \notin MediaManagerMethods
    /\ Finished("button_callback", admin_id, "AttributeError",
                u, setting_name, st, channel)
    /\ callbacks' = Seen(media_id)
    /\ screened' = None
    /\ UNCHANGED mmvars

\* button_callback for the data "approve_<media_id>" and "reject_<media_id>"
button_callback(user_id, verb, media_id) ==
    LET u1 == increment_message_count(users, user_id)
        st1 == Processed1(stats)
    IN IF ~is_admin(user_id)
       THEN /\ Finished("button_callback", user_id, "unauthorized",
                        u1, setting_name, st1, channel)
            /\ screened' = None
            /\ UNCHANGED <<mmvars, callbacks>>
       ELSE _handle_media_approval(media_id, verb = "approve", user_id, u1, st1)

\* ------------------------------------------------------------ bot.py

NEED_APPROVAL_TEXT == FALSE
NEED_APPROVAL_MEDIA == TRUE

\* a types.Message: kind is "text" or the attachment the message carries
Message(message_id, user_id, kind, text, caption) ==
    [message_id |-> message_id, user_id |-> user_id, kind |-> kind,
     text |-> text, caption |-> caption]

\* message.photo or message.video or message.document
IsRelayMedia(message) == message.kind \in {"photo", "video", "document"}

\* a or b for two str
Or(a, b) == IF a # <<>> THEN a ELSE b

\* the dict as dict.get leaves it
NotPopped(d, k) == d

\* the dict without the key, the way dict.pop leaves it
Popped(d, k) == [j \in DOMAIN d \ {k} |-> d[j]]

\* pending_messages[msg_id] = message
Stored(d, k, v) == [j \in DOMAIN d \cup {k} |-> IF j = k THEN v ELSE d[j]]

\* a forward_to_channel call that has reached its first await
Forward(message, approved_by) == [message |-> message, approved_by |-> approved_by]

\* what forward_to_channel sends to CHANNEL_ID; of is the message it sends for
RelaySent(f) ==
    [of |-> f.message.message_id,
     method |-> IF IsRelayMedia(f.message)
                THEN "send_" \o f.message.kind ELSE "send_message",
     text |-> Or(f.message.caption, f.message.text),
     approved_by |-> f.approved_by]

\* bot.send_message with an empty text, which Telegram refuses
EmptyText(p) ==
    p.method = "send_message" /\ p.text = <<>> /\ p.approved_by = None

\* handle_messages, up to the first await of the call it ends in: the filter,
\* then ask_approval's store or the start of a forward_to_channel; message_id
\* is message.message_id, the id Telegram gave the message in its chat
handle_messages(message_id, user_id, kind, text, caption) ==
    LET message == Message(message_id, user_id, kind, text, caption)
        approval == IF IsRelayMedia(message)
                    THEN NEED_APPROVAL_MEDIA ELSE NEED_APPROVAL_TEXT
    IN /\ UNCHANGED <<relay_channel, relay_decisions>>
       /\ IF bad_words[text]
          THEN /\ relay_ret' = [op |-> "filtered", id |-> message.message_id,
                                found |-> FALSE]
               /\ UNCHANGED <<pending_messages, forwards>>
          ELSE IF approval
          THEN /\ pending_messages' =
                    Stored(pending_messages, message.message_id, message)
               /\ relay_ret' = [op |-> "ask_approval", id |-> message.message_id,
                                found |-> FALSE]
               /\ UNCHANGED forwards
          ELSE /\ forwards' = Append(forwards, Forward(message, None))
               /\ relay_ret' = [op |-> "forward", id |-> message.message_id,
                                found |-> FALSE]
               /\ UNCHANGED pending_messages

\* handle_callback for the data "approve_<msg_id>" and "reject_<msg_id>", up to
\* its first await
handle_callback(verb, msg_id, from_user) ==
    LET found == msg_id \in DOMAIN pending_messages
    IN /\ relay_ret' = [op |-> verb, id |-> msg_id, found |-> found]
       /\ UNCHANGED <<relay_channel, next_message_id>>
       /\ IF found
          THEN /\ pending_messages' = Popped(pending_messages, msg_id)
               /\ relay_decisions' = Stored(relay_decisions, msg_id, verb)
               /\ forwards' = IF verb = "approve"
                              THEN Append(forwards,
                                          Forward(pending_messages[msg_id],
                                                  Some(from_user)))
                              ELSE forwards
          ELSE UNCHANGED <<pending_messages, relay_decisions, forwards>>

\* the i-th waiting forward_to_channel goes on: its send to CHANNEL_ID is made,
\* or raises, in which case the except clause replies to the submitter
forward_to_channel(i, sent) ==
    /\ forwards' = [j \in 1..(Len(forwards) - 1) |->
                        IF j < i THEN forwards[j] ELSE forwards[j + 1]]
    /\ relay_channel' = IF sent /\ ~EmptyText(RelaySent(forwards[i]))
                        THEN Append(relay_channel, RelaySent(forwards[i]))
                        ELSE relay_channel
    /\ UNCHANGED <<pending_messages, relay_decisions, relay_ret, next_message_id>>

\* ------------------------------------------------------------ construction

\* MediaManager.__init__ loads whatever an earlier process left in the file.
\* An earlier process leaves Unset items and, when it stopped between the two
\* saves of a decide, decided ones; the entries are in insertion order, so
\* their timestamps ascend.
LoadedTimes ==
    {StartTime - RetentionSeconds - 1, StartTime - RetentionSeconds, StartTime}

LoadedDecisions == {"unset", "approved", "rejected"}

LoadedItem(id, user_id, t, d) ==
    PendingMedia(id, user_id, User, 10 + id, "photo", Some("file"), Caption, t,
                 IF d = "unset" THEN None ELSE Some(d = "approved"),
                 IF d = "unset" THEN None ELSE Some(t),
                 IF d = "unset" THEN None ELSE Some(901))

InitialFiles ==
    UNION {
        {[i \in 1..n |-> LoadedItem(i, 1, ch[i][1], ch[i][2])] :
            ch \in {c \in [1..n -> LoadedTimes \X LoadedDecisions] :
                        \A i \in 1..n, j \in 1..n : i < j => c[i][1] <= c[j][1]}}
        : n \in 0..MaxLoaded}

\* d old decided items followed by k Unset items, each of another submitter
Prefill(d, k) ==
    [i \in 1..(d + k) |->
        IF i <= d
        THEN LoadedItem(i, 1000 + i, StartTime - RetentionSeconds - 1, "approved")
        ELSE LoadedItem(i, 1000 + i, StartTime, "unset")]

CeilingFiles == {Prefill(d, k) : d \in {0, 1}, k \in {0, QueueCeiling}}

MediaManagerInit(f) ==
    /\ file = f
    /\ pending_media = load_pending_media(f)
    /\ now = StartTime
    /\ nextId = Len(f) + 1
    /\ ret = [op |-> "__init__", id |-> 0, val |-> None, cleaned |-> {}]
    /\ decided = [id \in {f[i].id : i \in {j \in 1..Len(f) : f[j].approved # None}} |->
                    LET m == CHOOSE m \in get_media(f, id) : TRUE
                    IN [approved |-> (m.approved = Some(TRUE)),
                        admin_id |-> CHOOSE a \in m.admin_id : TRUE,
                        n |-> 1, loaded |-> TRUE]]
    /\ track = Idle

\* Config.__init__ reads the environment: MAX_PENDING_MEDIA, default 100, the
\* channel and the admins.  run_bot goes on only if validate() holds, which
\* wants an ADMIN_USER_ID other than 0.
ConfigInit(ceilings) ==
    \E c \in ceilings :
        config = [MAX_PENDING_MEDIA |-> c, CHANNEL_ID |-> "@channel",
                  ADMIN_USER_ID |-> 901, ADDITIONAL_ADMIN_IDS |-> {902}]

\* UserManager.__init__ on a new database and BotHandlers.__init__
BotHandlersInit ==
    /\ users = EmptyDict
    /\ setting_name = EmptyDict
    /\ stats = [messages_processed |-> 0, messages_filtered |-> 0,
                messages_posted |-> 0, media_pending |-> 0,
                media_approved |-> 0, media_rejected |-> 0]
    /\ channel = <<>>
    /\ handled = [handler |-> "__init__", user_id |-> 0, outcome |-> "built"]
    /\ callbacks = EmptyDict
    /\ screened = None

\* ProfanityFilter.__init__ where f is data/profanity_words.json as it finds
\* it: the lists are loaded and compiled, and the defaults are saved when
\* there was no file
ProfanityFilterInit(f) ==
    /\ profanity_words = _load_profanity_words(f)
    /\ patterns = _compile_patterns(_load_profanity_words(f))
    /\ words_file = IF f = None THEN json_dump(default_lists) ELSE f
    /\ mutation = NoMutation
    /\ restarts = 0

\* bot.py as imported: pending_messages = {}
RelayInit ==
    /\ pending_messages = EmptyDict
    /\ forwards = <<>>
    /\ relay_channel = <<>>
    /\ relay_decisions = EmptyDict
    /\ relay_ret = [op |-> "start", id |-> 0, found |-> FALSE]
    /\ next_message_id = 1

Init ==
    /\ running = "main.py"
    /\ ConfigInit({QueueCeiling})
    /\ \E f \in InitialFiles : MediaManagerInit(f)
    /\ ProfanityFilterInit(None)
    /\ BotHandlersInit
    /\ RelayInit

\* the earlier process ran under the same configuration
InitCeiling ==
    /\ running = "main.py"
    /\ ProfanityFilterInit(None)
    /\ BotHandlersInit
    /\ RelayInit
    /\ ConfigInit(ConfiguredCeilings)
    /\ \E f \in CeilingFiles :
        /\ Len(get_pending_media(f)) <= config.MAX_PENDING_MEDIA
        /\ MediaManagerInit(f)

\* ------------------------------------------------------------ calls

FileIdOf(media_type) == IF media_type = "text" THEN None ELSE Some("file")

Submit ==
    \E u \in Users, t \in MediaTypes, s1 \in SaveOutcomes, s2 \in SaveOutcomes :
        /\ nextId <= MaxItems
        /\ add_pending_media(u, User, 20 + nextId, t, FileIdOf(t), Caption, s1, s2)
        /\ UNCHANGED <<running, botvars, relayvars, lexvars>>

Approve ==
    \E id \in 1..nextId, a \in AdminIds, s1 \in SaveOutcomes, s2 \in SaveOutcomes :
        approve_media(id, a, s1, s2) /\ UNCHANGED <<running, botvars, relayvars, lexvars>>

Reject ==
    \E id \in 1..nextId, a \in AdminIds, s1 \in SaveOutcomes, s2 \in SaveOutcomes :
        reject_media(id, a, s1, s2) /\ UNCHANGED <<running, botvars, relayvars, lexvars>>

RemoveProcessedMedia ==
    \E id \in 1..nextId, s \in SaveOutcomes :
        remove_processed_media(id, s) /\ UNCHANGED <<running, botvars, relayvars, lexvars>>

Cleanup ==
    \E s \in SaveOutcomes : _cleanup_old_media(s) /\ UNCHANGED <<running, botvars, relayvars, lexvars>>

\* The clock moves by a second, at most MaxSkew times in a row, or by the
\* retention window.
Clock ==
    \E d \in TickSteps :
        /\ now + d <= MaxNow
        /\ d < RetentionSeconds => (now - StartTime) % RetentionSeconds < MaxSkew
        /\ Tick(d)
        /\ UNCHANGED <<running, botvars, relayvars, lexvars>>

Next ==
    \/ Submit
    \/ Approve
    \/ Reject
    \/ RemoveProcessedMedia
    \/ Cleanup
    \/ Clock

Spec == Init /\ [][Next]_vars

\* The same calls on a queue that fills up: one submitter, one admin, and
\* decisions, taken once the queue is within Headroom of the ceiling, on the
\* oldest or the newest pending item, on a decided item or on an id that is
\* not in the queue.
NearCeiling == Len(get_pending_media(pending_media)) + Headroom >= QueueCeiling

DecideTargets ==
    LET p == get_pending_media(pending_media)
    IN {nextId} \cup (IF p = <<>> THEN {} ELSE {p[1].id, p[Len(p)].id})
                \cup (Ids(pending_media) \ Ids(p))

SubmitCeiling ==
    /\ add_pending_media(1, User, 20, "photo", Some("file"), Caption, "ok", "ok")
    /\ UNCHANGED <<running, botvars, relayvars, lexvars>>

ApproveCeiling ==
    \E id \in DecideTargets :
        /\ NearCeiling
        /\ Cardinality(DOMAIN decided) <= MaxDecisions
        /\ approve_media(id, 901, "ok", "ok")
        /\ UNCHANGED <<running, botvars, relayvars, lexvars>>

RejectCeiling ==
    \E id \in DecideTargets :
        /\ NearCeiling
        /\ Cardinality(DOMAIN decided) <= MaxDecisions
        /\ reject_media(id, 901, "ok", "ok")
        /\ UNCHANGED <<running, botvars, relayvars, lexvars>>

CleanupCeiling == _cleanup_old_media("ok") /\ UNCHANGED <<running, botvars, relayvars, lexvars>>

NextCeiling ==
    \/ SubmitCeiling
    \/ ApproveCeiling
    \/ RejectCeiling
    \/ CleanupCeiling

SpecCeiling == InitCeiling /\ [][NextCeiling]_vars

\* The same calls when the disk may fail: each save either writes the file or
\* raises, which save_pending_media logs.
StorageOutcomes == {"ok", "fail"}

StorageSubmit ==
    \E u \in Users, s1 \in StorageOutcomes, s2 \in StorageOutcomes :
        /\ nextId <= MaxItems
        /\ add_pending_media(u, User, 20 + nextId, "photo", Some("file"), Caption, s1, s2)
        /\ UNCHANGED <<running, botvars, relayvars, lexvars>>

StorageApprove ==
    \E id \in 1..nextId, s1 \in StorageOutcomes, s2 \in StorageOutcomes :
        approve_media(id, 901, s1, s2) /\ UNCHANGED <<running, botvars, relayvars, lexvars>>

StorageReject ==
    \E id \in 1..nextId, s1 \in StorageOutcomes, s2 \in StorageOutcomes :
        reject_media(id, 901, s1, s2) /\ UNCHANGED <<running, botvars, relayvars, lexvars>>

NextStorage ==
    \/ StorageSubmit
    \/ StorageApprove
    \/ StorageReject

SpecStorage == Init /\ [][NextStorage]_vars

\* The updates that reach the two bots.  A process runs main.py, with its
\* MediaManager, UserManager and BotHandlers, or it runs bot.py.
Senders == {1, 901}

Attachments == {"photo", "sticker", "contact"}

InitBots ==
    /\ running \in {"main.py", "bot.py"}
    /\ ConfigInit({QueueCeiling})
    /\ \E f \in InitialFiles :
        /\ running = "bot.py" => f = <<>>
        /\ MediaManagerInit(f)
    /\ ProfanityFilterInit(None)
    /\ BotHandlersInit
    /\ RelayInit

\* main.py takes another update
Update ==
    /\ running = "main.py"
    /\ stats.messages_processed < MaxUpdates
    /\ UNCHANGED <<running, relayvars, lexvars>>

StartCommand ==
    \E u \in Senders : Update /\ start_command(u, User)

SetNameCommand ==
    \E u \in Senders : Update /\ set_name_command(u)

BanUserCommand ==
    \E u \in Senders, target \in Senders : Update /\ ban_user_command(u, target)

TextMessage ==
    \E u \in Senders, text \in Texts, sent \in BOOLEAN :
        Update /\ handle_text_message(u, User, 20 + nextId, text, sent, "ok", "ok")

MediaMessage ==
    \E u \in Senders, a \in Attachments, caption \in {<<>>, Caption, Swear}, sent \in BOOLEAN :
        Update /\ handle_media_message(u, User, 20 + nextId, a, caption, sent, "ok", "ok")

ButtonCallback ==
    \E u \in Senders \cup AdminIds, verb \in {"approve", "reject"}, id \in 1..nextId :
        Update /\ button_callback(u, verb, id)

\* bot.py takes another update, or one of its handlers goes on
Relay ==
    /\ running = "bot.py"
    /\ UNCHANGED <<running, mmvars, botvars, lexvars>>

\* a message in a private chat with the bot: the ids of these chats come from
\* one counter
RelayMessage ==
    \E u \in Senders, kind \in {"text"} \cup Attachments, text \in {<<>>} \cup Texts :
        /\ Relay
        /\ next_message_id <= MaxRelayMessages
        /\ next_message_id' = next_message_id + 1
        /\ IF kind = "text"
           THEN text # <<>> /\ handle_messages(next_message_id, u, kind, text, <<>>)
           ELSE handle_messages(next_message_id, u, kind, <<>>, text)

RelayCallback ==
    \E verb \in {"approve", "reject"}, id \in 1..next_message_id, a \in AdminIds :
        Relay /\ handle_callback(verb, id, a)

RelayForward ==
    \E i \in 1..Len(forwards), sent \in BOOLEAN :
        Relay /\ forward_to_channel(i, sent)

NextBots ==
    \/ StartCommand
    \/ SetNameCommand
    \/ BanUserCommand
    \/ TextMessage
    \/ MediaMessage
    \/ ButtonCallback
    \/ RelayMessage
    \/ RelayCallback
    \/ RelayForward

SpecBots == InitBots /\ [][NextBots]_vars

\* bot.py as a member of supergroups too.  @dp.message() has no chat filter, so
\* a photo, video or document posted there reaches handle_messages; a
\* supergroup numbers its messages on its own, so message.message_id can be any
\* id, one that a private chat or another supergroup has used included.
\* Fewer than MaxRelayMessages messages wait, are on their way or have been
\* sent when such a message comes.
RoomForPhoto ==
    Cardinality(DOMAIN pending_messages) + Len(forwards) + Len(relay_channel)
        < MaxRelayMessages

RelaySupergroupPhoto ==
    \E u \in Senders, id \in 1..MaxRelayMessages, caption \in {<<>>, Caption} :
        /\ Relay
        /\ RoomForPhoto
        /\ handle_messages(id, u, "photo", <<>>, caption)
        /\ UNCHANGED next_message_id

\* a photo in a private chat with the bot
RelayPrivatePhoto ==
    \E u \in Senders, caption \in {<<>>, Caption} :
        /\ Relay
        /\ RoomForPhoto
        /\ next_message_id <= MaxRelayMessages
        /\ next_message_id' = next_message_id + 1
        /\ handle_messages(next_message_id, u, "photo", <<>>, caption)

InitChats == InitBots /\ running = "bot.py"

NextChats ==
    \/ RelayPrivatePhoto
    \/ RelaySupergroupPhoto
    \/ RelayCallback
    \/ RelayForward

SpecChats == InitChats /\ [][NextChats]_vars

\* The registry at work: main.py on a new database, two users and an admin.
\* The users start the bot under one username or another, ask to set a name,
\* send a name or a photo, or cancel; the admin bans a user.
Usernames == {User, Other}

RegistryUpdate ==
    /\ running = "main.py"
    /\ stats.messages_processed < MaxRegistryUpdates
    /\ UNCHANGED <<running, relayvars, lexvars>>

RegistryStart ==
    \E u \in Users, name \in Usernames : RegistryUpdate /\ start_command(u, name)

RegistrySetName ==
    \E u \in Users : RegistryUpdate /\ set_name_command(u)

RegistryCancel ==
    \E u \in Users : RegistryUpdate /\ cancel_command(u)

RegistryBan ==
    \E target \in Users : RegistryUpdate /\ ban_user_command(config.ADMIN_USER_ID, target)

\* the text message handle_text_message gets from user u
RegistryTextFrom(u, text) ==
    RegistryUpdate /\ handle_text_message(u, User, 20 + nextId, text, TRUE, "ok", "ok")

RegistryText ==
    \E u \in Users, text \in Names : RegistryTextFrom(u, text)

RegistryMedia ==
    \E u \in Users :
        /\ RegistryUpdate
        /\ handle_media_message(u, User, 20 + nextId, "photo", Caption, TRUE, "ok", "ok")

NextRegistry ==
    \/ RegistryStart
    \/ RegistrySetName
    \/ RegistryCancel
    \/ RegistryBan
    \/ RegistryText
    \/ RegistryMedia

\* main.py on a new database and with no data/pending_media.json
InitRegistry ==
    /\ running = "main.py"
    /\ ConfigInit({QueueCeiling})
    /\ MediaManagerInit(<<>>)
    /\ ProfanityFilterInit(None)
    /\ BotHandlersInit
    /\ RelayInit

SpecRegistry == InitRegistry /\ [][NextRegistry]_vars

\* The lexicon at work: main.py with its admin, who adds words to the lists
\* and removes words from them, and a user, who sends texts and tries the
\* admin commands; the process is stopped, at any statement, and started
\* again on the files it left.

\* an Application that starts a handler whenever an update is there
Unscheduled == TRUE

\* The Application of main.py:70 takes the next update when the handler of
\* the last one is through, and add_word and remove_word await nothing: no
\* handler starts while one of them is under way.
Scheduled == mutation.pc = "idle"

LexiconUpdate ==
    /\ running = "main.py"
    /\ Scheduled
    /\ stats.messages_processed < MaxLexiconUpdates
    /\ UNCHANGED <<running, relayvars>>

LexiconAdd ==
    \E u \in Senders, language \in Languages, word \in LexiconWords :
        LexiconUpdate /\ add_profanity_command(u, language, word)

LexiconRemove ==
    \E u \in Senders, language \in Languages, word \in LexiconWords :
        LexiconUpdate /\ remove_profanity_command(u, language, word)

\* the text message handle_text_message gets from the user
LexiconTextOf(text) ==
    /\ LexiconUpdate
    /\ handle_text_message(1, User, 20 + nextId, text, TRUE, "ok", "ok")
    /\ UNCHANGED lexvars

LexiconText ==
    \E text \in LexiconWords : LexiconTextOf(text)

LexiconReset ==
    running = "main.py" /\ reset_patterns /\ UNCHANGED <<running, relayvars>>

LexiconFill ==
    running = "main.py" /\ fill_patterns /\ UNCHANGED <<running, relayvars>>

LexiconSave ==
    \E s \in SaveOutcomes :
        running = "main.py" /\ save_profanity_words(s) /\ UNCHANGED <<running, relayvars>>

\* run_bot once more: the objects are built anew, the MediaManager and the
\* ProfanityFilter from their files and the UserManager on its database
LexiconRestart ==
    /\ running = "main.py"
    /\ restarts < MaxRestarts
    /\ restarts' = restarts + 1
    /\ profanity_words' = _load_profanity_words(words_file)
    /\ patterns' = _compile_patterns(_load_profanity_words(words_file))
    /\ mutation' = NoMutation
    /\ pending_media' = load_pending_media(file)
    /\ ret' = [op |-> "__init__", id |-> 0, val |-> None, cleaned |-> {}]
    /\ track' = Idle
    /\ setting_name' = EmptyDict
    /\ stats' = [messages_processed |-> 0, messages_filtered |-> 0,
                 messages_posted |-> 0, media_pending |-> 0,
                 media_approved |-> 0, media_rejected |-> 0]
    /\ handled' = [handler |-> "__init__", user_id |-> 0, outcome |-> "built"]
    /\ screened' = None
    /\ UNCHANGED <<words_file, file, config, now, nextId, decided>>
    /\ UNCHANGED <<users, channel, callbacks, running, relayvars>>

NextLexicon ==
    \/ LexiconAdd
    \/ LexiconRemove
    \/ LexiconText
    \/ LexiconReset
    \/ LexiconFill
    \/ LexiconSave
    \/ LexiconRestart

SpecLexicon == InitRegistry /\ [][NextLexicon]_vars

\* ------------------------------------------------------------ properties

Unset(q) == get_pending_media(q)

Old(m, t) == t - m.timestamp > RetentionSeconds

DecideOps == {"approve_media", "reject_media"}

\* C1: for every item id at most one approve_media or reject_media call
\* returns success, every later call for the id returns failure, and the
\* decision the successful call recorded (approved or rejected, and the
\* deciding admin) is the one every stored copy of the item shows.
C1_DecideOnce ==
    /\ \A id \in DOMAIN decided :
        /\ decided[id].n = 1
        /\ \A m \in get_media(pending_media, id) \cup get_media(file, id) :
            m.approved # None =>
                /\ m.approved = Some(decided[id].approved)
                /\ m.admin_id = Some(decided[id].admin_id)
    /\ ret.op \in DecideOps /\ ret.val = Some(TRUE) =>
        /\ ret.id \in DOMAIN decided
        /\ decided[ret.id].approved = (ret.op = "approve_media")

\* a decide on an id that a call of this process decided earlier has failed
C1_Witness ==
    /\ ret.op \in DecideOps
    /\ ret.val = Some(FALSE)
    /\ ret.id \in DOMAIN decided
    /\ ~decided[ret.id].loaded
    /\ ret.id \notin Ids(pending_media)

\* C2: when two or more decide callbacks of admins have been handled for an
\* item that was Unset when the first of them arrived, exactly one of them has
\* recorded a decision for the item, and the decision statistics
\* (media_approved plus media_rejected) count one decision for each such item.
C2_ConcurrentDecide ==
    \A id \in DOMAIN callbacks :
        callbacks[id].unset /\ callbacks[id].count >= 2 =>
            /\ id \in DOMAIN decided
            /\ decided[id].n = 1
            /\ ~Undecided(pending_media, id)
            /\ stats.media_approved + stats.media_rejected
                    = Cardinality({i \in DOMAIN callbacks : callbacks[i].unset})

\* the sends to the channel, made or on their way, that carry the content of
\* the message bot.py queued under msg_id
RelayPublications(msg_id) ==
    Cardinality({i \in 1..Len(relay_channel) : relay_channel[i].of = msg_id})
        + Cardinality({i \in 1..Len(forwards) :
                            forwards[i].message.message_id = msg_id})

\* the messages bot.py has queued for approval so far
RelayItems == DOMAIN pending_messages \cup DOMAIN relay_decisions

\* the sends of main.py's bot to the channel that carry the content of item m
Publications(m) ==
    {i \in 1..Len(channel) :
        channel[i].file_id = m.file_id /\ channel[i].text.body = m.caption}

C4_SubmitCapacity ==
    /\ [](Len(Unset(pending_media)) <= QueueCeiling)
    /\ [][SubmitCeiling =>
            LET before == Unset(pending_media)
                after == Unset(pending_media')
            IN /\ (ret'.val = None) <=> (Len(before) >= QueueCeiling)
               /\ ret'.val = None => pending_media' = pending_media /\ file' = file
               /\ ret'.val # None =>
                    /\ Len(after) = Len(before) + 1
                    /\ \A i \in 1..Len(before) : after[i] = before[i]
                    /\ after[Len(after)].id \in ret'.val
                    /\ after[Len(after)].id \notin Ids(pending_media)
                    /\ Items(pending_media') \ Items(pending_media)
                            = {after[Len(after)]}
       ]_vars

\* a submit on a queue filled from empty has failed
C4_Witness ==
    /\ ret.op = "add_pending_media"
    /\ ret.val = None
    /\ Len(Unset(pending_media)) = QueueCeiling
    /\ \A m \in Items(pending_media) : m.user_id = 1

\* C5: after a successful decide on a queue of exactly QueueCeiling Unset
\* items, the next submit succeeds and the submit after that one fails.
C5_DecideFreesOne ==
    track.armed =>
        /\ Len(track.subs) >= 1 => track.subs[1]
        /\ Len(track.subs) >= 2 => ~track.subs[2]

\* both submits after the freeing decide have been made
C5_Witness ==
    /\ track.armed
    /\ Len(track.subs) = 2
    /\ Len(Unset(pending_media)) = QueueCeiling

\* C6: a submit that succeeds leaves no more Unset items than the configured
\* ceiling, MAX_PENDING_MEDIA.
C6_ConfiguredCeiling ==
    ret.op = "add_pending_media" /\ ret.val # None =>
        Len(Unset(pending_media)) <= config.MAX_PENDING_MEDIA

\* C7: no submitter has more than SubmitterQuota Unset items.
C7_SubmitterQuota ==
    \A u \in {m.user_id : m \in Items(pending_media)} :
        Cardinality({m \in Items(Unset(pending_media)) : m.user_id = u})
            <= SubmitterQuota

\* C8: get_pending_media returns exactly the Unset items, each once, oldest
\* first: timestamps ascend, and so do the ids, which are handed out in
\* arrival order.
C8_ListPendingFifo ==
    LET p == get_pending_media(pending_media)
    IN /\ Items(p) = {m \in Items(pending_media) : m.approved = None}
       /\ Len(p) = Cardinality(Items(p))
       /\ \A i \in 1..Len(p), j \in 1..Len(p) :
            i < j => p[i].timestamp <= p[j].timestamp /\ p[i].id < p[j].id

\* after a decide, two pending items submitted at different times are listed
C8_Witness ==
    LET p == get_pending_media(pending_media)
    IN /\ Len(p) >= 2
       /\ p[1].timestamp < p[2].timestamp
       /\ \E id \in DOMAIN decided : ~decided[id].loaded

\* C9: a _cleanup_old_media step removes an item if and only if the item is
\* older than the retention window and decided; every other item stays, with
\* its fields as they were.
C9_PurgeOnlyOldDecided ==
    [][Cleanup =>
        /\ \A m \in Items(pending_media) :
            m \notin Items(pending_media') <=> (Old(m, now) /\ m.approved # None)
        /\ Items(pending_media') \subseteq Items(pending_media)
        /\ Ids(pending_media) \ Ids(pending_media') = ret'.cleaned
      ]_vars

\* a cleanup has removed an old decided item and left an old Unset one
C9_Witness ==
    /\ ret.op = "_cleanup_old_media"
    /\ ret.cleaned # {}
    /\ \E m \in Items(pending_media) : m.approved = None /\ Old(m, now)

\* C10 as claimed: when an add_pending_media call returns, whether with an id
\* or without, no item that is decided and older than the retention window is
\* left.
C10_PurgeOnEverySubmit ==
    [][SubmitCeiling =>
        ~ \E m \in Items(pending_media') : m.approved # None /\ Old(m, now')
      ]_vars

\* C10 as amended: when an add_pending_media call returns an id, no item that
\* is decided and older than the retention window is left; a call that fails
\* leaves the dict as it was.
C10_PurgeOnSuccessfulSubmit ==
    [][SubmitCeiling =>
        /\ ret'.val # None =>
            ~ \E m \in Items(pending_media') : m.approved # None /\ Old(m, now')
        /\ ret'.val = None => pending_media' = pending_media
      ]_vars

\* a submit has returned an id and purged an old decided item on its way
C10_Witness ==
    /\ ret.op = "add_pending_media"
    /\ ret.val # None
    /\ ret.cleaned # {}

\* C11: a decide removes the item it decides.  When no decided item was
\* loaded from the file, every item of the queue is Unset between operations,
\* and get_media finds nothing for an id a decide of this process succeeded
\* on, in the dict and, the saves having succeeded, in the file.
C11_DecidedLeavesQueue ==
    (\A id \in DOMAIN decided : ~decided[id].loaded) =>
        /\ \A m \in Items(pending_media) : m.approved = None
        /\ \A id \in DOMAIN decided :
            /\ get_media(pending_media, id) = None
            /\ get_media(load_pending_media(file), id) = None
        /\ ret.op \in DecideOps /\ ret.val = Some(TRUE) =>
            get_media(pending_media, ret.id) = None

\* an approve has just succeeded on one of two queued items; the other one is
\* still in the queue
C11_Witness ==
    /\ ret.op = "approve_media"
    /\ ret.val = Some(TRUE)
    /\ \A id \in DOMAIN decided : ~decided[id].loaded
    /\ get_media(pending_media, ret.id) = None
    /\ pending_media # <<>>

\* C12: an Unset item stays in the queue, with every field as it was, through
\* every step except a successful decide on its own id: a submit, a cleanup, a
\* remove_processed_media (on its id or another), a decide on another id and
\* the passing of time leave it where it is.
C12_UnsetLeavesOnlyByDecide ==
    [][\A m \in Items(Unset(pending_media)) :
            \/ m \in Items(Unset(pending_media'))
            \/ /\ ret'.op \in DecideOps
               /\ ret'.id = m.id
               /\ ret'.val = Some(TRUE)
               /\ m.id \notin Ids(pending_media')
      ]_vars

\* remove_processed_media, called on an Unset item older than the retention
\* window, has returned False and the item is still pending
C12_Witness ==
    /\ ret.op = "remove_processed_media"
    /\ ret.val = Some(FALSE)
    /\ \E m \in get_media(pending_media, ret.id) : m.approved = None /\ Old(m, now)

\* a text or caption contains_profanity finds a word in
Flagged(text) == contains_profanity(default_words, text)[1]

\* C13: no item of the queue and no send to the channel carries a text or
\* caption that contains_profanity flags; an update of main.py whose text or
\* caption the screening step finds flagged ends there: handle_text_message
\* and handle_media_message leave the queue, its file and the channel as they
\* were and count the message in messages_filtered.
C13_FlaggedNeverQueued ==
    /\ [](/\ \A m \in Items(pending_media) \cup Items(file) : ~Flagged(m.caption)
          /\ \A i \in 1..Len(channel) : ~Flagged(channel[i].text.body))
    /\ [][screened' = Some(TRUE) =>
            /\ handled'.handler \in {"handle_text_message", "handle_media_message"}
            /\ handled'.outcome = "filtered"
            /\ UNCHANGED <<pending_media, file, nextId, channel>>
            /\ stats'.messages_filtered = stats.messages_filtered + 1
            /\ stats'.media_pending = stats.media_pending
            /\ stats'.messages_posted = stats.messages_posted
       ]_vars

\* a media message with a flagged caption has been filtered while an item was
\* waiting in the queue
C13_Witness ==
    /\ screened = Some(TRUE)
    /\ handled.handler = "handle_media_message"
    /\ handled.outcome = "filtered"
    /\ stats.messages_filtered = 1
    /\ Unset(pending_media) # <<>>

\* C14: an update of main.py whose text or caption the screening step finds
\* clean passes it: the handler goes on to the queue or to the channel, it
\* does not answer with the profanity rejection and it does not count the
\* message in messages_filtered.
C14_CleanPassesScreening ==
    [][screened' = Some(FALSE) =>
            /\ handled'.outcome \in {"queued", "queue_full", "asked",
                                     "AttributeError", "posted", "TelegramError"}
            /\ stats'.messages_filtered = stats.messages_filtered
      ]_vars

\* the fields of the rows that show to other users: everything but the counter
Profiles(u) == [k \in DOMAIN u |-> [u[k] EXCEPT !.message_count = 0]]

\* C15: a text or media message from a user whose row has is_banned set is
\* turned away before the screening step and before the queue: the matcher is
\* not consulted, the queue, its file and the channel stay as they were, and so
\* do the name-setting mode and every display name.
C15_BannedRejectedUpstream ==
    [][(/\ handled'.handler \in {"handle_text_message", "handle_media_message"}
        /\ handled'.user_id \in DOMAIN users
        /\ users[handled'.user_id].is_banned) =>
            /\ handled'.outcome = "banned"
            /\ screened' = None
            /\ UNCHANGED <<pending_media, file, nextId, channel, setting_name>>
            /\ Profiles(users') = Profiles(users)
            /\ stats'.media_pending = stats.media_pending
            /\ stats'.messages_posted = stats.messages_posted
            /\ stats'.messages_filtered = stats.messages_filtered
      ]_vars

\* a user who asked to set a name and was banned after that has sent a text:
\* it was turned away, the name is the default one and the mode is still on
C15_Witness ==
    /\ handled.handler = "handle_text_message"
    /\ handled.outcome = "banned"
    /\ handled.user_id \in DOMAIN users
    /\ users[handled.user_id].is_banned
    /\ users[handled.user_id].display_name = DefaultName(users[handled.user_id].user_number)
    /\ is_user_setting_name_mode(setting_name, handled.user_id)

\* C16: a button callback with the data approve_<id> or reject_<id> from a
\* user who is neither ADMIN_USER_ID nor one of ADDITIONAL_ADMIN_IDS is turned
\* away: it changes no item of the queue or of its file, records no decision,
\* sends nothing to the channel and leaves media_approved and media_rejected
\* as they were.
C16_OnlyAdminsDecide ==
    [][(/\ handled'.handler = "button_callback"
        /\ handled'.user_id # config.ADMIN_USER_ID
        /\ handled'.user_id \notin config.ADDITIONAL_ADMIN_IDS) =>
            /\ handled'.outcome = "unauthorized"
            /\ UNCHANGED <<pending_media, file, decided, callbacks, channel>>
            /\ stats'.media_approved = stats.media_approved
            /\ stats'.media_rejected = stats.media_rejected
      ]_vars

\* a user who is no admin has pressed a decide button while an item was
\* waiting, and the item is still waiting
C16_Witness ==
    /\ handled.handler = "button_callback"
    /\ handled.outcome = "unauthorized"
    /\ handled.user_id \notin {config.ADMIN_USER_ID} \cup config.ADDITIONAL_ADMIN_IDS
    /\ Unset(pending_media) # <<>>
    /\ callbacks = EmptyDict

\* C17: register_user for a user id that has a row returns the profile of
\* that row and leaves the table as it is, whatever username it is given; a
\* /start of a registered user adds no row and changes no number, no display
\* name, no username and no ban flag.
C17_RegisterIdempotent ==
    /\ [](\A k \in DOMAIN users, name \in Usernames :
            register_user(users, k, name, now) = <<users, "exists", Some(users[k])>>)
    /\ [][\A u \in Users, name \in Usernames :
            (RegistryUpdate /\ start_command(u, name) /\ u \in DOMAIN users) =>
                /\ DOMAIN users' = DOMAIN users
                /\ Profiles(users') = Profiles(users)
                /\ \A k \in DOMAIN users \ {u} : users'[k] = users[k]
       ]_vars

\* the first user to register has started the bot again after the second one
\* registered, and has kept the number 1 and the default name
C17_Witness ==
    /\ handled.handler = "start_command"
    /\ handled.outcome = "menu"
    /\ Cardinality(DOMAIN users) = 2
    /\ users[handled.user_id].message_count > 2
    /\ users[handled.user_id].user_number = 1
    /\ users[handled.user_id].display_name = DefaultName(1)

\* C18: a row that appears in the table carries the largest user_number of
\* the rows before it plus one, or 1 in an empty table, which is larger than
\* every number handed out before, and the default display name made from
\* that number; no two rows ever share a user_number.
C18_SequenceNumbers ==
    /\ [](\A a \in DOMAIN users, b \in DOMAIN users :
            a # b => users[a].user_number # users[b].user_number)
    /\ [][\A k \in DOMAIN users' \ DOMAIN users :
            LET numbers == {users[j].user_number : j \in DOMAIN users}
                n == users'[k].user_number
            IN /\ numbers = {} => n = 1
               /\ numbers # {} => n - 1 \in numbers
               /\ \A m \in numbers : m < n
               /\ users'[k].display_name = DefaultName(n)
               /\ \A j \in DOMAIN users : users'[j].user_number = users[j].user_number
       ]_vars

\* a second user has registered after the first one took a name of its own
C18_Witness ==
    /\ handled.handler = "start_command"
    /\ handled.user_id \in DOMAIN users
    /\ users[handled.user_id].user_number = 2
    /\ users[handled.user_id].display_name = DefaultName(2)
    /\ users[handled.user_id].message_count = 2
    /\ \E k \in DOMAIN users : users[k].user_number = 1 /\ users[k].display_name = Ali

\* the names register_user hands out
DefaultNames == {DefaultName(n) : n \in 1..Len(Digits)}

\* user u, who has a row, is not banned and was asked for a name, sends text
\* of a valid length as the name
NameSentBy(u, text) ==
    /\ RegistryTextFrom(u, text)
    /\ u \in DOMAIN users
    /\ ~users[u].is_banned
    /\ is_user_setting_name_mode(setting_name, u)
    /\ Len(text) >= 3
    /\ Len(text) <= 20

\* C19: no two rows ever hold the same display_name.  When users who were
\* asked for a name send the same text, in either order, the first
\* set_display_name stores it and the one of the other user fails as taken
\* and leaves that user's display name, and every other row, as it was.
C19_UniqueDisplayNames ==
    /\ [](\A a \in DOMAIN users, b \in DOMAIN users :
            a # b => users[a].display_name # users[b].display_name)
    /\ [][\A u \in Users, text \in Names :
            NameSentBy(u, text) =>
                IF \E k \in DOMAIN users \ {u} : users[k].display_name = text
                THEN /\ handled'.outcome = "name_taken"
                     /\ Profiles(users') = Profiles(users)
                ELSE /\ handled'.outcome = "name_set"
                     /\ users'[u].display_name = text
                     /\ \A k \in DOMAIN users \ {u} : users'[k] = users[k]
       ]_vars

\* two users were asked for a name; one has got the name both sent, the
\* other was told it is taken and has kept the default name
C19_Witness ==
    /\ handled.handler = "handle_text_message"
    /\ handled.outcome = "name_taken"
    /\ handled.user_id \in DOMAIN users
    /\ users[handled.user_id].display_name \in DefaultNames
    /\ \E k \in DOMAIN users \ {handled.user_id} : users[k].display_name \in {Ali, Sam}
    /\ \A k \in DOMAIN setting_name : ~setting_name[k]
    /\ DOMAIN setting_name = DOMAIN users
    /\ Cardinality(DOMAIN users) = 2

\* C20: a user whose display name is a name of their own choice cannot change
\* it again: a set_display_name with another name of valid length that no row
\* holds does not succeed, and the stored display name stays what it is.
C20_FirstCustomizationWins ==
    [][\A u \in Users, text \in Names :
            (/\ NameSentBy(u, text)
             /\ users[u].display_name \notin DefaultNames
             /\ text # users[u].display_name
             /\ \A k \in DOMAIN users : users[k].display_name # text) =>
                /\ handled'.outcome # "name_set"
                /\ users'[u].display_name = users[u].display_name
      ]_vars


\* C21: a name of valid length that contains_profanity flags is turned down
\* as invalid when a user who was asked for a name sends it: it is not
\* stored, and no row is changed.
C21_FlaggedNameRejected ==
    [][\A u \in Users, text \in Names :
            (NameSentBy(u, text) /\ profanity_filter[text][1]) =>
                /\ handled'.outcome = "name_invalid"
                /\ Profiles(users') = Profiles(users)
      ]_vars


\* C22: the name-setting mode of a user is off after handle_text_message has
\* handled a text of a user who is not banned and was in name-setting mode,
\* whatever the text, and after cancel_command has handled the user's /cancel.
C22_ModeClearedOnCompletionOrCancel ==
    [][/\ \A u \in Users, text \in Names :
            (/\ RegistryTextFrom(u, text)
             /\ is_user_setting_name_mode(setting_name, u)
             /\ ~(u \in DOMAIN users /\ users[u].is_banned)) =>
                ~is_user_setting_name_mode(setting_name', u)
       /\ \A u \in Users :
            (RegistryUpdate /\ cancel_command(u)) =>
                ~is_user_setting_name_mode(setting_name', u)
      ]_vars


\* C23: once a handler of main.py has handled an update of a user, the table
\* holds a row for that user id: the user of the update handled last always
\* has a profile.
C23_ProfileOnFirstContact ==
    handled.handler # "__init__" => get_user_profile(users, handled.user_id) # None


\* C24: the message_count of a row goes up by one in a step in which a
\* submission of that user is accepted, into the queue or onto the channel,
\* and stays what it is in every other step: commands, button presses and
\* submissions that are turned away do not change it.
C24_CountsAcceptedSubmissions ==
    [][\A k \in DOMAIN users :
            LET accepted == /\ handled'.user_id = k
                            /\ handled'.handler \in {"handle_text_message", "handle_media_message"}
                            /\ nextId' > nextId \/ Len(channel') > Len(channel)
            IN /\ k \in DOMAIN users'
               /\ users'[k].message_count =
                    users[k].message_count + (IF accepted THEN 1 ELSE 0)
      ]_vars


\* the table u had Telegram given username for user_id when the row was written
Renamed(u, user_id, username) ==
    IF user_id \in DOMAIN u
    THEN [u EXCEPT ![user_id].telegram_username = username]
    ELSE u

\* the item _send_message_for_approval puts into the queue for a text
queued_text(u, user_id, username, message_text) ==
    PendingMedia(nextId, user_id, text_display_name(u, user_id, username),
                 20 + nextId, "text", None, message_text, now, None, None, None)

\* the item handle_media_message puts into the queue
queued_media(u, user_id, username, media_type, file_id, caption) ==
    PendingMedia(nextId, user_id, media_username(u, user_id, username),
                 20 + nextId, media_type, file_id, caption, now, None, None, None)

\* what goes to the channel for a text and for a photo of user_id, published
\* directly and published after approval
Payloads(u, user_id, username) ==
    <<direct_text(u, user_id, username, Caption),
      direct_media(u, user_id, username, "photo", Some("file"), Caption),
      approved_send(u, queued_text(u, user_id, username, Caption)),
      approved_send(u, queued_media(u, user_id, username, "photo", Some("file"), Caption))>>

C27_UnknownLanguageReportedAsFailure ==
    [][\A user_id \in Senders, language \in Languages, word \in LexiconWords :
            (/\ LexiconUpdate
             /\ \/ add_profanity_command(user_id, language, word)
                \/ remove_profanity_command(user_id, language, word)
             /\ is_admin(user_id)
             /\ language \notin DOMAIN profanity_words) =>
                /\ UNCHANGED lexvars
                /\ handled'.outcome \notin {"added", "removed"}
      ]_vars

\* C28: when no add_word or remove_word is under way, every word of every
\* list of the lexicon is flagged by contains_profanity; and when remove_word
\* has returned True for a word, contains_profanity no longer flags that word.
C28_AddRemoveRoundTrip ==
    /\ [](mutation.pc = "idle" =>
            \A language \in DOMAIN profanity_words :
                \A k \in 1..Len(profanity_words[language]) :
                    classify(patterns, Vocabulary[profanity_words[language][k]])[1])
    /\ [][(mutation.op = "remove_word" /\ handled' # handled /\ handled'.outcome = "removed") =>
            ~classify(patterns', mutation.word)[1]
         ]_vars

\* C29: when the process is started again after add_word or remove_word has
\* completed and written the file, the filter built from the file holds the
\* word lists and the patterns held just before the restart.
C29_MutationsDurable ==
    [][(/\ restarts' = restarts + 1
        /\ mutation.pc = "idle"
        /\ words_file = json_dump(profanity_words)) =>
            /\ profanity_words' = profanity_words
            /\ patterns' = patterns
      ]_vars

\* C30: contains_profanity never runs on a half-updated lexicon.  In every
\* state in which no add_word or remove_word is under way the compiled
\* patterns are those of the stored word lists, all of them; and every step
\* in which a handler asks contains_profanity starts in such a state.
C30_ClassifySeesCompleteLexicon ==
    /\ [](mutation.pc = "idle" =>
            /\ patterns = _compile_patterns(profanity_words)
            /\ patterns # no_patterns)
    /\ [][(/\ stats'.messages_processed = stats.messages_processed + 1
            /\ screened' # None) =>
                /\ mutation.pc = "idle"
                /\ patterns = _compile_patterns(profanity_words)
                /\ patterns # no_patterns
         ]_vars

\* a text was screened after remove_word took a default word from its list,
\* and was found clean
C30_Witness ==
    /\ handled.handler = "handle_text_message"
    /\ screened = Some(FALSE)
    /\ mutation.pc = "idle"
    /\ Place(Wtf) \notin Range(profanity_words["english"])
    /\ patterns # default_patterns

\* C31: every word of every list of the lexicon is lower-cased and trimmed,
\* and no two entries of a list are the same word up to letter case.
C31_WordsNormalised ==
    \A language \in DOMAIN profanity_words :
        LET list == Spelled(profanity_words[language])
        IN /\ \A k \in 1..Len(list) :
                /\ list[k] = Lower(list[k])
                /\ list[k] # <<>>
                /\ list[k][1] # " "
                /\ list[k][Len(list[k])] # " "
           /\ \A j, k \in 1..Len(list) :
                Lower(list[j]) = Lower(list[k]) => j = k

\* the texts get_severity_score is asked about: the words of the commands, a
\* high-severity word, and two flagged words in one text
Fuck == <<"f", "u", "c", "k">>
SeverityTexts == LexiconWords \cup {Fuck, Koskhol \o <<" ">> \o <<"KAF", "YE", "RE">>}

\* C32 as stated: the severity of a text is min(10, 2 * n + 3 * h) with n the
\* number of distinct matched terms and h the number of them that are words
\* of the high-severity set; it lies in 0..10 and is 0 exactly when classify
\* does not flag the text.
C32_SeverityCountsMembers ==
    \A text \in SeverityTexts :
        LET found == classify(patterns, text)
            n == Cardinality(found[2])
            h == Cardinality({w \in found[2] : Lower(w) \in Range(high_severity_words)})
            score == get_severity_score(patterns, text)
        IN /\ score = Min(10, 2 * n + 3 * h)
           /\ score \in 0..10
           /\ score = 0 <=> ~found[1]

\* the amended statement, of a filter that holds the patterns pats
SeverityCountsRoots(pats) ==
    \A text \in SeverityTexts :
        LET found == classify(pats, text)
            n == Cardinality(found[2])
            h == Cardinality({w \in found[2] :
                    \E k \in 1..Len(high_severity_words) :
                        \E i \in 1..Len(w) : OccursAt(Lower(w), high_severity_words[k], i)})
            score == get_severity_score(pats, text)
        IN /\ score = Min(10, 2 * n + 3 * h)
           /\ score \in 0..10
           /\ score = 0 <=> ~found[1]

\* C32, amended: h is the number of matched terms that contain a word of the
\* high-severity set, letter case aside.  This holds of the patterns the
\* filter is built with and of the patterns every step leaves that changes
\* them.
C32_SeverityCountsRoots ==
    /\ SeverityCountsRoots(default_patterns)
    /\ [][patterns' # patterns => SeverityCountsRoots(patterns')]_vars

\* the lexicon has changed, and the texts have the scores 0, 2, 5 and 10: a
\* clean one, a plain match, a high-severity match, a clipped sum
C32_Witness ==
    /\ patterns # default_patterns
    /\ mutation.pc = "idle"
    /\ {get_severity_score(patterns, text) : text \in SeverityTexts} = {0, 2, 5, 10}
    /\ LET found_words == classify(patterns, Koskhol \o <<" ">> \o <<"KAF", "YE", "RE">>)[2]
       IN add_severity(Cardinality(found_words) * 2, found_words) > 10

\* C33: after every submit and every decide the in-memory queue is the queue
\* that is in storage, whether the saves went through or not; in particular
\* the item whose id a submit returns is in storage.
C33_QueueMatchesStorage ==
    [][ret'.op \in {"add_pending_media", "approve_media", "reject_media"} =>
            /\ pending_media' = load_pending_media(file')
            /\ (ret'.op = "add_pending_media" /\ ret'.val # None) => ret'.id \in Ids(file')
      ]_vars

\* C34: every /start of a user, also of one without a row, ends with
\* register_user having returned a profile, and the user has a row; the
\* retry after an IntegrityError comes to an end.
C34_RegisterTerminates ==
    [][\A u \in Users, name \in Usernames :
            (RegistryUpdate /\ start_command(u, name)) =>
                /\ handled'.outcome # "RecursionError"
                /\ get_user_profile(users', u) # None
      ]_vars

\* C35: every stored item has its decision fields set together: approved,
\* admin_decision_time and admin_id are all None or all set, in memory and in
\* the file; and the item a decide has marked carries the decision, the
\* admin who took it and the time of the decide.
C35_DecisionFieldsTogether ==
    /\ [](\A m \in Items(pending_media) \cup Items(file) :
            /\ m.approved = None <=> m.admin_decision_time = None
            /\ m.approved = None <=> m.admin_id = None)
    /\ [][(ret'.op \in {"approve_media", "reject_media"} /\ ret'.val = Some(TRUE)) =>
            \A m \in get_media(file', ret'.id) \cup get_media(pending_media', ret'.id) :
                m.approved # None =>
                    /\ m.approved = Some(ret'.op = "approve_media")
                    /\ m.admin_decision_time = Some(now)
                    /\ m.admin_id = Some(901)
         ]_vars

\* the file holds an item with the decision this process took on it: the save
\* after the marking went through, the save after the removal did not
C35_Witness ==
    \E m \in Items(file) :
        /\ m.approved # None
        /\ m.id \in DOMAIN decided
        /\ ~decided[m.id].loaded
        /\ ret.op \in {"approve_media", "reject_media"}
        /\ ret.val = Some(TRUE)
        /\ ret.id = m.id

\* C36: when set_display_name returns True for a user and a name, the user
\* has a profile and its display_name is that name; this holds of every table
\* the registry reaches, and of every name a user sends when asked for one.
C36_SuccessMeansStored ==
    /\ [](\A u \in Users, name \in Names :
            LET r == set_display_name(users, u, name)
            IN r[2] => /\ get_user_profile(r[1], u) # None
                       /\ \A p \in get_user_profile(r[1], u) : p.display_name = name)
    /\ [][\A u \in Users, name \in Names :
            (/\ RegistryTextFrom(u, name)
             /\ is_user_setting_name_mode(setting_name, u)
             /\ ~is_user_banned(users, u)
             /\ Len(name) >= 3 /\ Len(name) <= 20
             /\ handled'.outcome # "name_taken") =>
                /\ get_user_profile(users', u) # None
                /\ \A p \in get_user_profile(users', u) : p.display_name = name
         ]_vars

C39_PendingKeepsItsId ==
    [][\A id \in DOMAIN pending_messages :
            \/ /\ id \in DOMAIN pending_messages'
               /\ pending_messages'[id] = pending_messages[id]
            \/ /\ id \notin DOMAIN pending_messages'
               /\ relay_ret' = [op |-> relay_ret'.op, id |-> id, found |-> TRUE]
               /\ relay_ret'.op \in {"approve", "reject"}
      ]_vars

\* C40: bot.py screens the caption of a photo, video or document as it screens
\* a text: no message with an attachment whose caption contains_bad_words waits
\* in pending_messages, is on its way to the channel or has been sent there.
C40_RelayScreensCaptions ==
    /\ \A id \in DOMAIN pending_messages :
        IsRelayMedia(pending_messages[id]) => ~bad_words[pending_messages[id].caption]
    /\ \A i \in 1..Len(forwards) :
        IsRelayMedia(forwards[i].message) => ~bad_words[forwards[i].message.caption]
    /\ \A i \in 1..Len(relay_channel) :
        relay_channel[i].method # "send_message" => ~bad_words[relay_channel[i].text]

====
